---- MODULE Spec2Model ----
(***************************************************************************)
(* Tiered memory accounting and eviction of dask_cuda/proxify_host_file.py *)
(* (Proxies, ProxiesOnHost, ProxiesOnDisk, ProxiesOnDevice, ProxyManager,  *)
(* ProxifyHostFile).                                                       *)
(*                                                                         *)
(* Specification Spec runs the manager's operations and SpecStore the     *)
(* store's operations, one call at a time (each action is one whole call). *)
(* Specification SpecThreads runs the registry and manager code statement  *)
(* by statement in two threads, with the manager's RLock.                  *)
(***************************************************************************)
EXTENDS Integers, Sequences, FiniteSets, TLC

\* ------------------------------------------------------------------ bounds

\* time.monotonic() is read at most up to this value
MaxTime == 1
\* SpecThreads: the number of calls made on a registry without the manager
MaxDirectCalls == 2
\* most gen_file_path calls in SpecDisk
MaxFiles == 2

\* ---------------------------------------------------------- the universe

\* identities of proxy objects (id(proxy)) and of device buffers
Proxy == {"p1", "p2", "p3"}
Buf == {"b1", "b2", "b3"}
Keys == {"k1"}
Threads == {"t1", "t2"}
\* the proxies the threads of SpecThreads work on
ThreadProxies == {"p1"}
\* the three registries of a ProxyManager: _disk, _host, _dev
Tiers == {"disk", "host", "dev"}
\* serializer tags a proxy reports (None is written "None")
Serializers == {"None", "dask", "pickle", "disk"}

\* proxy._pxy_get_device_memory_objects(), in iteration order: p1 and p2
\* alias buffer b1, p2 references two buffers
PxyGetDeviceMemoryObjects(p) ==
    CASE p = "p1" -> <<"b1">>
      [] p = "p2" -> <<"b1", "b2">>
      [] OTHER    -> <<"b3">>

\* dask.sizeof.sizeof of a device buffer
SizeOfBuf(b) == CASE b = "b1" -> 2 [] b = "b2" -> 1 [] OTHER -> 2

\* dask.sizeof.sizeof of a proxy object
SizeOfProxy(p) == CASE p = "p1" -> 2 [] p = "p2" -> 3 [] OTHER -> 2

\* the serializer that p._pxy_serialize(serializers=("dask", "pickle")) ends
\* with: "dask" when the proxied type has a dask serializer, else "pickle"
HostSerializerOf(p) == IF p = "p3" THEN "pickle" ELSE "dask"

\* the values a caller stores: the proxies that proxify_device_objects
\* finds in them, in the order it finds them
Values == {<<"p1">>, <<"p3">>, <<"p1", "p2">>, <<"p2", "p3">>}

\* the extra_dev_mem / extra_host_mem a caller passes
Extras == {0, 1, 5}

\* limits a ProxifyHostFile is constructed with
\* the sizes of the allocations that fail
OomBytes == {1, 4}
\* the proxies whose serialization fails during one call
FaultSets == {{}} \cup {{p} : p \in Proxy}
FaultDeviceLimits == {2}
\* the proxies that die in SpecGCFair
Mortal == {"p2", "p3"}
DeviceLimits == {3}
HostLimits == {4}
\* the host limits and the keys of SpecFast
FastHostLimits == {4, 300}
FastKeys == {"k1", "k2"}

\* a path is the sequence of its components; None and "" are the empty path
NoPath == <<>>
\* the local_directory arguments, the values of the "temporary-directory"
\* configuration and the working directory of the process
LocalDirectories == {NoPath, <<"data">>}
TemporaryDirectories == {NoPath, <<"data">>}
Cwd == <<"home">>
\* the shared_filesystem arguments and the values of "jit-unspill-shared-fs"
SharedFilesystems == {"None", "False"}
SharedFsConfigs == {"unset", "True"}

\* ---------------------------------------------------------------- state

VARIABLES
    ids,                  \* Proxies._proxy_id_to_proxy of each registry (keys in insertion order)
    mem_usage,            \* Proxies._mem_usage of each registry
    proxy_id_to_dev_mems, \* ProxiesOnDevice.proxy_id_to_dev_mems
    dev_mem_to_proxy_ids, \* ProxiesOnDevice.dev_mem_to_proxy_ids
    serializer,           \* proxy._pxy_get().serializer
    last_access,          \* proxy._pxy_get().last_access
    clock,                \* the last value time.monotonic() returned
    device_memory_limit,  \* ProxyManager._device_memory_limit
    host_memory_limit,    \* ProxyManager._host_memory_limit
    store,                \* ProxifyHostFile.store
    spill_on_demand_initialized, \* ProxifyHostFile.spill_on_demand_initialized
    tracked,              \* history: proxies registered and not removed since
    last,                 \* history: the last call, its arguments and its evictions
    pc,                   \* SpecThreads: each thread's position
    frame,                \* SpecThreads: each thread's call arguments and locals
    lock_owner,           \* SpecThreads: holder of ProxyManager.lock ("none" when free)
    direct,               \* SpecThreads, history: calls made on a registry without the manager
    managed,              \* SpecThreads, history: a method of the manager was called
    dead,                 \* proxies whose weak reference resolves to None
    spill_directory,      \* ProxifyHostFile._spill_directory ("None" for None)
    spill_shared_filesystem, \* ProxifyHostFile._spill_shared_filesystem ("unset" before it is assigned)
    spill_to_disk_counter, \* ProxifyHostFile._spill_to_disk_counter
    file_lock_owner,      \* holder of ProxifyHostFile.lock ("none" when free)
    returned              \* history: the gen_file_path calls that ended, in order

vars == <<ids, mem_usage, proxy_id_to_dev_mems, dev_mem_to_proxy_ids, serializer,
          last_access, clock, device_memory_limit, host_memory_limit, store,
          spill_on_demand_initialized, tracked, last, pc, frame, lock_owner, direct,
          managed, dead, spill_directory, spill_shared_filesystem,
          spill_to_disk_counter, file_lock_owner, returned>>

\* the class state of ProxifyHostFile that names the spill files
spillVars == <<spill_directory, spill_shared_filesystem, spill_to_disk_counter,
               file_lock_owner, returned>>

threadVars == <<pc, frame, lock_owner, direct, managed, dead, spillVars>>

\* ------------------------------------------------------------- helpers

Range(s) == {s[i] : i \in 1..Len(s)}

RECURSIVE SumBufs(_)
\* the sum of sizeof over a set of device buffers
SumBufs(S) ==
    IF S = {} THEN 0
    ELSE LET x == CHOOSE y \in S : TRUE IN SizeOfBuf(x) + SumBufs(S \ {x})

RECURSIVE SumProxies(_)
\* the sum of sizeof over a set of proxies
SumProxies(S) ==
    IF S = {} THEN 0
    ELSE LET x == CHOOSE y \in S : TRUE IN SizeOfProxy(x) + SumProxies(S \ {x})

RECURSIVE Unique(_)
\* the elements of s, each at its first place
Unique(s) ==
    IF s = <<>> THEN <<>>
    ELSE LET AppendNew(front, x) == IF x \in Range(front) THEN front ELSE Append(front, x)
         IN AppendNew(Unique(SubSeq(s, 1, Len(s) - 1)), s[Len(s)])

Max(S) == CHOOSE x \in S : \A y \in S : y <= x

\* The manager, its registries and the proxies' details as one value, so
\* that a call's statements can be applied one after the other.  err is
\* set when a statement raises (AssertionError, KeyError, an error of a
\* serializer): the statements after it do not run.  dead: the proxies
\* whose weak reference resolves to None; faulty: the proxies whose
\* serialization raises in this call; calls: the proxies the serializer
\* callback of evict was called with, in order.
World ==
    [ids |-> ids, mem |-> mem_usage, p2d |-> proxy_id_to_dev_mems,
     d2p |-> dev_mem_to_proxy_ids, ser |-> serializer, la |-> last_access,
     err |-> FALSE, dead |-> dead, faulty |-> {}, calls |-> <<>>]

Raise(w) == [w EXCEPT !.err = TRUE]

\* ------------------------------------------------------------- Proxies

\* Proxies.contains_proxy_id
ContainsProxyId(w, tier, p) == p \in Range(w.ids[tier])

\* Proxies.__len__
ProxiesLen(w, tier) == Len(w.ids[tier])

\* ProxiesOnHost.mem_usage_add (ProxiesOnDisk inherits it)
HostMemUsageAdd(w, tier, p) == [w EXCEPT !.mem[tier] = @ + SizeOfProxy(p)]

\* mutant: the removal leaves the tally as it is
HostMemUsageRemoveNothing(w, tier, p) == w

\* ProxiesOnHost.mem_usage_remove (ProxiesOnDisk inherits it)
HostMemUsageRemove(w, tier, p) == [w EXCEPT !.mem[tier] = @ - SizeOfProxy(p)]

\* mutant: the buffer's size is added for every proxy that references it
DevMemUsageAddOneCountingAliases(w, p, b) ==
    [w EXCEPT !.p2d[p] = @ \cup {b},
              !.mem["dev"] = @ + SizeOfBuf(b),
              !.d2p[b] = @ \cup {p}]

\* the body of the loop of ProxiesOnDevice.mem_usage_add, for one buffer
DevMemUsageAddOne(w, p, b) ==
    [w EXCEPT !.p2d[p] = @ \cup {b},
              !.mem["dev"] = IF w.d2p[b] = {} THEN @ + SizeOfBuf(b) ELSE @,
              !.d2p[b] = @ \cup {p}]

RECURSIVE DevMemUsageAddLoop(_, _, _)
DevMemUsageAddLoop(w, p, bufs) ==
    IF bufs = <<>> THEN w
    ELSE DevMemUsageAddLoop(DevMemUsageAddOne(w, p, Head(bufs)), p, Tail(bufs))

\* ProxiesOnDevice.mem_usage_add
DevMemUsageAdd(w, p) ==
    IF p \in DOMAIN w.p2d THEN Raise(w)
    ELSE DevMemUsageAddLoop(
             [w EXCEPT !.p2d = [q \in DOMAIN w.p2d \cup {p} |->
                                   IF q = p THEN {} ELSE w.p2d[q]]],
             p, PxyGetDeviceMemoryObjects(p))

\* ProxiesOnDevice.mem_usage_remove
DevMemUsageRemove(w, p) ==
    IF p \notin DOMAIN w.p2d THEN Raise(w)
    ELSE LET mems == w.p2d[p]
             freed == {b \in mems : w.d2p[b] \ {p} = {}}
         IN IF \E b \in mems : p \notin w.d2p[b] THEN Raise(w)
            ELSE [w EXCEPT !.p2d = [q \in DOMAIN w.p2d \ {p} |-> w.p2d[q]],
                           !.d2p = [b \in Buf |-> IF b \in mems THEN w.d2p[b] \ {p}
                                                  ELSE w.d2p[b]],
                           !.mem["dev"] = @ - SumBufs(freed)]

MemUsageAdd(w, tier, p) ==
    IF tier = "dev" THEN DevMemUsageAdd(w, p) ELSE HostMemUsageAdd(w, tier, p)

MemUsageRemove(w, tier, p) ==
    IF tier = "dev" THEN DevMemUsageRemove(w, p) ELSE HostMemUsageRemove(w, tier, p)

\* the dict assignment of Proxies.add: a new key goes last, a key already
\* there keeps its place
MapInsert(m, p) == IF p \in Range(m) THEN m ELSE Append(m, p)

\* the del statement of Proxies.remove
MapDelete(m, p) == SelectSeq(m, LAMBDA q : q # p)

\* Proxies.add
ProxiesAdd(w, tier, p) ==
    IF w.err THEN w
    ELSE IF ContainsProxyId(w, tier, p) THEN Raise(w)
    ELSE MemUsageAdd([w EXCEPT !.ids[tier] = MapInsert(@, p)], tier, p)

\* the tally reset at the end of Proxies.remove
ResetEmptyTally(w, tier) ==
    IF ProxiesLen(w, tier) = 0 /\ w.mem[tier] # 0
    THEN [w EXCEPT !.mem[tier] = 0] ELSE w

\* Proxies.remove
ProxiesRemove(w, tier, p) ==
    IF w.err THEN w
    ELSE IF ~ContainsProxyId(w, tier, p) THEN Raise(w)
    ELSE LET Reset(w1) == IF w1.err THEN w1 ELSE ResetEmptyTally(w1, tier)
         IN Reset(MemUsageRemove([w EXCEPT !.ids[tier] = MapDelete(@, p)], tier, p))

\* mutant: a dead weak reference is not skipped
GetProxiesIncludingDead(w, tier) == w.ids[tier]

\* Proxies.get_proxies: the proxies whose weak reference resolves
GetProxies(w, tier) == SelectSeq(w.ids[tier], LAMBDA p : p \notin w.dead)

\* -------------------------------------------------------- ProxyManager

\* mutant: only "dask" names the host registry
GetProxiesBySerializerDaskOnly(s) ==
    IF s = "disk" THEN "disk"
    ELSE IF s = "dask" THEN "host"
    ELSE "dev"

\* ProxyManager.get_proxies_by_serializer
GetProxiesBySerializer(s) ==
    IF s = "disk" THEN "disk"
    ELSE IF s \in {"dask", "pickle"} THEN "host"
    ELSE "dev"

\* ProxyManager.get_proxies_by_proxy_object ("none" for None)
GetProxiesByProxyObject(w, p) ==
    IF ContainsProxyId(w, "dev", p) THEN "dev"
    ELSE IF ContainsProxyId(w, "host", p) THEN "host"
    ELSE IF ContainsProxyId(w, "disk", p) THEN "disk"
    ELSE "none"

\* ProxyManager.contains
ManagerContains(w, p) ==
    \/ ContainsProxyId(w, "disk", p)
    \/ ContainsProxyId(w, "host", p)
    \/ ContainsProxyId(w, "dev", p)

\* mutant: the proxy is not removed from the registry it was in
ManagerAddKeepingOld(w, p, s) ==
    IF w.err THEN w
    ELSE LET old_proxies == GetProxiesByProxyObject(w, p)
             new_proxies == GetProxiesBySerializer(s)
         IN IF old_proxies # new_proxies THEN ProxiesAdd(w, new_proxies, p) ELSE w

\* ProxyManager.add
ManagerAdd(w, p, s) ==
    IF w.err THEN w
    ELSE LET old_proxies == GetProxiesByProxyObject(w, p)
             new_proxies == GetProxiesBySerializer(s)
         IN IF old_proxies # new_proxies
            THEN ProxiesAdd(IF old_proxies # "none"
                            THEN ProxiesRemove(w, old_proxies, p) ELSE w,
                            new_proxies, p)
            ELSE w

\* mutant: the removal of a proxy found in no registry does nothing
ManagerRemoveIgnoringUnknown(w, p) ==
    LET in_disk == ContainsProxyId(w, "disk", p)
        in_host == ContainsProxyId(w, "host", p)
        in_dev == ContainsProxyId(w, "dev", p)
    IN IF w.err \/ ~(in_disk \/ in_host \/ in_dev) THEN w
       ELSE ProxiesRemove(w, IF in_dev THEN "dev" ELSE IF in_host THEN "host" ELSE "disk", p)

\* ProxyManager.remove
ManagerRemove(w, p) ==
    LET in_disk == ContainsProxyId(w, "disk", p)
        in_host == ContainsProxyId(w, "host", p)
        in_dev == ContainsProxyId(w, "dev", p)
    IN IF w.err THEN w
       ELSE IF in_host /\ in_disk THEN Raise(w)
       ELSE IF in_dev /\ (in_disk \/ in_host) THEN Raise(w)
       ELSE IF ~(in_disk \/ in_host \/ in_dev) THEN Raise(w)
       ELSE ProxiesRemove(w, IF in_dev THEN "dev" ELSE IF in_host THEN "host" ELSE "disk", p)

\* ProxyManager.validate: TRUE when no assertion fails.  The registries
\* of the serializers "disk", "dask" and "cuda" are gone through: every
\* proxy that resolves is in the registry of its serializer and every weak
\* reference resolves (a serialized proxy's header carries the proxy's
\* serializer tag, which is the one value ser[p] here)
Validate(w) ==
    \A s \in {"disk", "dask", "cuda"} :
        LET proxies == GetProxiesBySerializer(s)
        IN /\ \A p \in Range(GetProxies(w, proxies)) :
                  GetProxiesBySerializer(w.ser[p]) = proxies
           /\ \A p \in Range(w.ids[proxies]) : p \notin w.dead

\* ProxyObject._pxy_set after the detail's serializer became s: the proxy
\* reports itself to its manager
PxySet(w, p, s) == ManagerAdd([w EXCEPT !.ser[p] = s], p, s)

\* p._pxy_serialize(serializers=("dask", "pickle")), the demotion of
\* maybe_evict_from_device: a proxy already serialized for the host is left alone
PxySerializeHost(w, p) ==
    IF w.err \/ w.ser[p] \in {"dask", "pickle"} THEN w
    ELSE PxySet(w, p, HostSerializerOf(p))

\* ProxifyHostFile.serialize_proxy_to_disk_inplace, the demotion of
\* maybe_evict_from_host: the frames of a proxy serialized with "dask" or
\* "pickle" are written to a file and the proxy is set to "disk"
SerializeProxyToDiskInplace(w, p) ==
    IF w.err THEN w
    ELSE IF w.ser[p] \in {"dask", "pickle"} THEN PxySet(w, p, "disk")
    ELSE w

\* the serializer callback evict is given for a tier
Demote(w, tier, p) ==
    IF tier = "dev" THEN PxySerializeHost(w, p) ELSE SerializeProxyToDiskInplace(w, p)

RECURSIVE DevBufferPairs(_)
\* the two loops of get_dev_access_info: every (buffer, proxy) in the order
\* buffer_to_proxies[buffer].append(proxy) runs
DevBufferPairs(ps) ==
    IF ps = <<>> THEN <<>>
    ELSE LET p == Head(ps)
             bufs == PxyGetDeviceMemoryObjects(p)
         IN [i \in 1..Len(bufs) |-> <<bufs[i], p>>] \o DevBufferPairs(Tail(ps))

\* the proxies appended to buffer_to_proxies[b]
ProxiesOfBuffer(pairs, b) ==
    LET mine == SelectSeq(pairs, LAMBDA x : x[1] = b)
    IN [i \in 1..Len(mine) |-> mine[i][2]]

\* mutant: an entry's access time is that of its oldest proxy
GetDevAccessInfoOldestAlias(w) ==
    LET Oldest(S) == CHOOSE x \in S : \A y \in S : x <= y
        Entry(dev_buf, proxies) ==
            [time |-> Oldest({w.la[p] : p \in Range(proxies)}),
             size |-> SizeOfBuf(dev_buf),
             proxies |-> proxies]
        Entries(pairs, bufs) ==
            [i \in 1..Len(bufs) |-> Entry(bufs[i], ProxiesOfBuffer(pairs, bufs[i]))]
        Buffers(pairs) == Entries(pairs, Unique([i \in 1..Len(pairs) |-> pairs[i][1]]))
    IN Buffers(DevBufferPairs(GetProxies(w, "dev")))

\* ProxyManager.get_dev_access_info
GetDevAccessInfo(w) ==
    LET Entry(dev_buf, proxies) ==
            [time |-> Max({w.la[p] : p \in Range(proxies)}),
             size |-> SizeOfBuf(dev_buf),
             proxies |-> proxies]
        Entries(pairs, bufs) ==
            [i \in 1..Len(bufs) |-> Entry(bufs[i], ProxiesOfBuffer(pairs, bufs[i]))]
        Buffers(pairs) == Entries(pairs, Unique([i \in 1..Len(pairs) |-> pairs[i][1]]))
    IN Buffers(DevBufferPairs(GetProxies(w, "dev")))

\* ProxyManager.get_host_access_info
GetHostAccessInfo(w) ==
    LET ps == GetProxies(w, "host")
    IN [i \in 1..Len(ps) |->
           [time |-> w.la[ps[i]], size |-> SizeOfProxy(ps[i]), proxies |-> <<ps[i]>>]]

\* the proxies_access callback evict is given for a tier
ProxiesAccess(w, tier) ==
    IF tier = "dev" THEN GetDevAccessInfo(w) ELSE GetHostAccessInfo(w)

\* mutant: the key is (x[0], x[1]), the smaller entry first
KeyLEAscendingSize(a, b) == a.time < b.time \/ (a.time = b.time /\ a.size <= b.size)

\* the sort key (x[0], -x[1]) of a is not greater than that of b
KeyLE(a, b) == a.time < b.time \/ (a.time = b.time /\ a.size >= b.size)

RECURSIVE InsertByKey(_, _)
InsertByKey(s, e) ==
    IF s = <<>> THEN <<e>>
    ELSE IF KeyLE(Head(s), e) THEN <<Head(s)>> \o InsertByKey(Tail(s), e)
    ELSE <<e>> \o s

RECURSIVE SortAccess(_)
\* access.sort(key=lambda x: (x[0], -x[1])): a stable sort
SortAccess(access) ==
    IF access = <<>> THEN <<>>
    ELSE InsertByKey(SortAccess(SubSeq(access, 1, Len(access) - 1)), access[Len(access)])

\* mutant: the loop breaks after its first entry
WalkLenOneEntry(access, i, freed_memory, nbytes) == IF Len(access) = 0 THEN 0 ELSE 1

RECURSIVE WalkLenStrict(_, _, _, _)
\* mutant: the loop breaks only when more than nbytes are freed
WalkLenStrict(access, i, freed_memory, nbytes) ==
    IF i > Len(access) THEN Len(access)
    ELSE IF freed_memory + access[i].size > nbytes THEN i
    ELSE WalkLenStrict(access, i + 1, freed_memory + access[i].size, nbytes)

RECURSIVE WalkLenCheckFirst(_, _, _, _)
\* mutant: the loop tests freed_memory >= nbytes before it takes an entry
WalkLenCheckFirst(access, i, freed_memory, nbytes) ==
    IF i > Len(access) THEN Len(access)
    ELSE IF freed_memory >= nbytes THEN i - 1
    ELSE WalkLenCheckFirst(access, i + 1, freed_memory + access[i].size, nbytes)

RECURSIVE WalkLen(_, _, _, _)
\* the for loop of evict: the number of entries it visits before it breaks
\* (every entry when it never breaks)
WalkLen(access, i, freed_memory, nbytes) ==
    IF i > Len(access) THEN Len(access)
    ELSE IF freed_memory + access[i].size >= nbytes THEN i
    ELSE WalkLen(access, i + 1, freed_memory + access[i].size, nbytes)

RECURSIVE SumSizes(_)
SumSizes(access) ==
    IF access = <<>> THEN 0 ELSE Head(access).size + SumSizes(Tail(access))

RECURSIVE ConcatProxies(_)
\* proxies_to_serialize after the walk of the entries in access
ConcatProxies(access) ==
    IF access = <<>> THEN <<>> ELSE Head(access).proxies \o ConcatProxies(Tail(access))

\* serializer(p) as the second loop of evict calls it.  The call is
\* recorded; it raises, leaving p as it is, when the serialization of p
\* fails or when p is no proxy any more
Serializer(w, tier, p) ==
    LET Called(w1) == [w1 EXCEPT !.calls = Append(@, p)]
    IN IF p \in w.faulty \cup w.dead THEN Raise(Called(w))
       ELSE Called(Demote(w, tier, p))

RECURSIVE SerializeAllRepeating(_, _, _, _)
\* mutant: no proxy is skipped (serialized_proxies is not looked at)
SerializeAllRepeating(w, tier, ps, serialized_proxies) ==
    IF ps = <<>> \/ w.err THEN w
    ELSE SerializeAllRepeating(Serializer(w, tier, Head(ps)), tier, Tail(ps),
                               serialized_proxies)

RECURSIVE SerializeAllCatching(_, _, _, _)
\* mutant: an error of the serializer is caught and the loop goes on
SerializeAllCatching(w, tier, ps, serialized_proxies) ==
    IF ps = <<>> THEN w
    ELSE IF Head(ps) \in serialized_proxies
    THEN SerializeAllCatching(w, tier, Tail(ps), serialized_proxies)
    ELSE SerializeAllCatching([Serializer(w, tier, Head(ps)) EXCEPT !.err = FALSE], tier,
                              Tail(ps), serialized_proxies \cup {Head(ps)})

RECURSIVE SerializeAll(_, _, _, _)
\* the second loop of evict over proxies_to_serialize: a proxy in
\* serialized_proxies is skipped, any other is added to it and serialized;
\* an error of the serializer ends the loop
SerializeAll(w, tier, ps, serialized_proxies) ==
    IF ps = <<>> \/ w.err THEN w
    ELSE IF Head(ps) \in serialized_proxies
    THEN SerializeAll(w, tier, Tail(ps), serialized_proxies)
    ELSE SerializeAll(Serializer(w, tier, Head(ps)), tier, Tail(ps),
                      serialized_proxies \cup {Head(ps)})

\* mutant: evict raises when its snapshot holds less than nbytes
EvictFailingWhenShort(w, nbytes, tier, extra) ==
    LET Serialized(access, k, freed_memory, order, w1) ==
            [w |-> w1,
             freed |-> freed_memory,
             rec |-> [tier |-> tier, nbytes |-> nbytes, extra |-> extra, access |-> access,
                      k |-> k, freed |-> freed_memory, order |-> order,
                      calls |-> w1.calls, raised |-> w1.err]]
        Short(access, k, freed_memory, order, w1) ==
            Serialized(access, k, freed_memory, order,
                       IF freed_memory < nbytes THEN Raise(w1) ELSE w1)
        Serialize(access, k, freed_memory, proxies_to_serialize) ==
            Short(access, k, freed_memory, Unique(proxies_to_serialize),
                  SerializeAll([w EXCEPT !.calls = <<>>], tier, proxies_to_serialize, {}))
        Walked(access, k, walked) ==
            Serialize(access, k, SumSizes(walked), ConcatProxies(walked))
        Walk(access, k) == Walked(access, k, SubSeq(access, 1, k))
        Sorted(access) == Walk(access, WalkLen(access, 1, 0, nbytes))
    IN Sorted(SortAccess(ProxiesAccess(w, tier)))

\* ProxyManager.evict on the registry of tier: the world it leaves, the
\* value it returns (none when it raises) and, for the history, what it
\* did (extra: the extra memory its caller counted into nbytes; access: the
\* sorted snapshot; k: the entries walked; order: the proxies collected, in
\* the order of their first collection; calls: the serializer's calls)
Evict(w, nbytes, tier, extra) ==
    LET Serialized(access, k, freed_memory, order, w1) ==
            [w |-> w1,
             freed |-> freed_memory,
             rec |-> [tier |-> tier, nbytes |-> nbytes, extra |-> extra, access |-> access,
                      k |-> k, freed |-> freed_memory, order |-> order,
                      calls |-> w1.calls, raised |-> w1.err]]
        Serialize(access, k, freed_memory, proxies_to_serialize) ==
            Serialized(access, k, freed_memory, Unique(proxies_to_serialize),
                       SerializeAll([w EXCEPT !.calls = <<>>], tier,
                                    proxies_to_serialize, {}))
        Walked(access, k, walked) ==
            Serialize(access, k, SumSizes(walked), ConcatProxies(walked))
        Walk(access, k) == Walked(access, k, SubSeq(access, 1, k))
        Sorted(access) == Walk(access, WalkLen(access, 1, 0, nbytes))
    IN Sorted(SortAccess(ProxiesAccess(w, tier)))

\* mutant: eviction starts when the usage reaches the limit
MaybeEvictFromDeviceAtLimit(w, extra_dev_mem) ==
    LET mem_over_usage == w.mem["dev"] + extra_dev_mem - device_memory_limit
        Evicted(e) == [w |-> e.w, evicts |-> <<e.rec>>]
    IN IF w.err \/ mem_over_usage < 0 THEN [w |-> w, evicts |-> <<>>]
       ELSE Evicted(Evict(w, mem_over_usage, "dev", extra_dev_mem))

\* ProxyManager.maybe_evict_from_device: the world and the evictions made
MaybeEvictFromDevice(w, extra_dev_mem) ==
    LET mem_over_usage == w.mem["dev"] + extra_dev_mem - device_memory_limit
        Evicted(e) == [w |-> e.w, evicts |-> <<e.rec>>]
    IN IF w.err \/ mem_over_usage <= 0 THEN [w |-> w, evicts |-> <<>>]
       ELSE Evicted(Evict(w, mem_over_usage, "dev", extra_dev_mem))

\* ProxyManager.maybe_evict_from_host
MaybeEvictFromHost(w, extra_host_mem) ==
    LET mem_over_usage == w.mem["host"] + extra_host_mem - host_memory_limit
        Evicted(e) == [w |-> e.w, evicts |-> <<e.rec>>]
    IN IF w.err \/ mem_over_usage <= 0 THEN [w |-> w, evicts |-> <<>>]
       ELSE Evicted(Evict(w, mem_over_usage, "host", extra_host_mem))

\* mutant: the host is checked before the device
MaybeEvictHostFirst(w, extra_dev_mem) ==
    LET Both(h, d) == [w |-> d.w, evicts |-> h.evicts \o d.evicts]
        ThenDevice(h) == Both(h, MaybeEvictFromDevice(h.w, extra_dev_mem))
    IN ThenDevice(MaybeEvictFromHost(w, 0))

\* ProxyManager.maybe_evict
MaybeEvict(w, extra_dev_mem) ==
    LET Both(d, h) == [w |-> h.w, evicts |-> d.evicts \o h.evicts]
        ThenHost(d) == Both(d, MaybeEvictFromHost(d.w, 0))
    IN ThenHost(MaybeEvictFromDevice(w, extra_dev_mem))

RECURSIVE TrackFound(_, _, _)
\* the loop of proxify over found_proxies
TrackFound(w, found_proxies, now) ==
    IF found_proxies = <<>> \/ w.err THEN w
    ELSE LET Track(w1, p) ==
                 IF ~ManagerContains(w1, p) THEN ManagerAdd(w1, p, w1.ser[p]) ELSE w1
             Access(p) == Track([w EXCEPT !.la[p] = now], p)
         IN TrackFound(Access(Head(found_proxies)), Tail(found_proxies), now)

\* ProxyManager.proxify of a value in which proxify_device_objects finds
\* found_proxies, time.monotonic() returning now
Proxify(w, found_proxies, now) == MaybeEvict(TrackFound(w, found_proxies, now), 0)

\* ----------------------------------------------------- ProxifyHostFile

RECURSIVE RemoveAll(_, _)
RemoveAll(w, ps) ==
    IF ps = <<>> THEN w
    ELSE RemoveAll(IF ManagerContains(w, Head(ps)) THEN ManagerRemove(w, Head(ps)) ELSE w,
                   Tail(ps))

\* mutant: the deletion also removes the value's proxies from the manager
DelItemUntracking(w, st, key) ==
    [w |-> RemoveAll(w, st[key]), store |-> [x \in DOMAIN st \ {key} |-> st[x]]]

\* ProxifyHostFile.__delitem__: del self.store[key]
DelItem(w, st, key) ==
    [w |-> w, store |-> [x \in DOMAIN st \ {key} |-> st[x]]]

\* ProxifyHostFile.__setitem__ after initialize_spill_on_demand_once
SetItem(w, st, key, value, now) ==
    LET Store(d, r) ==
            [w |-> r.w, evicts |-> r.evicts,
             store |-> IF r.w.err THEN d.store
                       ELSE [x \in DOMAIN d.store \cup {key} |->
                                IF x = key THEN value ELSE d.store[x]]]
        Insert(d) == Store(d, Proxify(d.w, value, now))
    IN Insert(IF key \in DOMAIN st THEN DelItem(w, st, key) ELSE [w |-> w, store |-> st])

\* mutant: the callback asks for a retry only when nbytes were freed
OomRetryWhenEnough(w, nbytes) ==
    LET Answer(e) == [w |-> e.w, evicts |-> <<e.rec>>, result |-> e.freed >= nbytes]
    IN Answer(Evict(w, nbytes, "dev", 0))

\* oom(nbytes), the callback initialize_spill_on_demand_once registers:
\* evict from the device, True when memory was freed
Oom(w, nbytes) ==
    LET Answer(e) == [w |-> e.w, evicts |-> <<e.rec>>, result |-> e.freed > 0]
    IN Answer(Evict(w, nbytes, "dev", 0))

\* ProxifyHostFile.fast: False when the host registry tracks nothing, else
\* an evictor (TRUE)
Fast(w) == ProxiesLen(w, "host") # 0

\* int(self.manager._host_memory_limit * 0.01)
OnePercent(limit) == limit \div 100

\* EvictDummy.evict(), the evictor fast returns: evict 1% of the host limit
\* from the host to the disk
FastEvict(w) ==
    LET Evicted(e) == [w |-> e.w, evicts |-> <<e.rec>>]
    IN Evicted(Evict(w, OnePercent(host_memory_limit), "host", 0))

\* ProxifyHostFile.initialize_spill_on_demand_once: the flag it leaves
InitializeSpillOnDemandOnce(flag) == IF flag = FALSE THEN TRUE ELSE flag

\* ------------------------------------------------- one call at a time

\* op: the call; p, tier, target: the proxy of an add or a remove, the
\* registry it was in before and the registry asked for; key: the key of a
\* store call; known: every proxy a proxify found was registered before;
\* evicts: the evictions the call made, in order; raised: the call raised;
\* result: the value the call returned, when it is a boolean; faulty: the
\* proxies whose serialization fails during the call
NoCall ==
    [op |-> "init", p |-> "none", tier |-> "none", target |-> "none", key |-> "none",
     known |-> FALSE, evicts |-> <<>>, raised |-> FALSE, result |-> FALSE,
     faulty |-> {}]

\* the values time.monotonic() can return next
Now == {t \in {clock, clock + 1} : t <= MaxTime}

Install(w) ==
    /\ ids' = w.ids
    /\ mem_usage' = w.mem
    /\ proxy_id_to_dev_mems' = w.p2d
    /\ dev_mem_to_proxy_ids' = w.d2p
    /\ serializer' = w.ser
    /\ last_access' = w.la

\* the proxies found in some registry
Registered(w) == {p \in Proxy : ManagerContains(w, p)}

\* os.path.join(local_directory or dask.config.get("temporary-directory")
\*              or os.getcwd(), "dask-worker-space", "jit-unspill-disk-storage");
\* None and the empty string are both NoPath ("or" takes neither)
SpillPath(local_directory, temporary_directory, cwd) ==
    (IF local_directory # NoPath THEN local_directory
     ELSE IF temporary_directory # NoPath THEN temporary_directory
     ELSE cwd) \o <<"dask-worker-space", "jit-unspill-disk-storage">>

\* dask.config.get(key, default=default) of a key whose value is value
ConfigGet(value, default) == IF value = "unset" THEN default ELSE value

\* A ProxifyHostFile has been constructed with the default arguments: its
\* manager and store are empty and register_disk_spilling(None, None) has
\* set the spill directory and the shared-filesystem flag.
Init ==
    /\ ids = [t \in Tiers |-> <<>>]
    /\ mem_usage = [t \in Tiers |-> 0]
    /\ proxy_id_to_dev_mems = [q \in {} |-> {}]
    /\ dev_mem_to_proxy_ids = [b \in Buf |-> {}]
    /\ serializer = [p \in Proxy |-> "None"]
    /\ last_access = [p \in Proxy |-> 0]
    /\ clock = 0
    /\ device_memory_limit \in DeviceLimits
    /\ host_memory_limit \in HostLimits
    /\ store = [k \in {} |-> <<>>]
    /\ spill_on_demand_initialized = FALSE
    /\ tracked = {}
    /\ last = NoCall
    /\ pc = [t \in Threads |-> "idle"]
    /\ frame = [t \in Threads |-> <<>>]
    /\ lock_owner = "none"
    /\ direct = 0
    /\ managed = FALSE
    /\ dead = {}
    /\ spill_directory = SpillPath(NoPath, NoPath, Cwd)
    /\ spill_shared_filesystem = "False"
    /\ spill_to_disk_counter = 0
    /\ file_lock_owner = "none"
    /\ returned = <<>>

\* a proxy's serializer becomes s and the proxy calls ProxyManager.add
Add(p, s) ==
    \E w \in {PxySet(World, p, s)} :
       /\ Install(w)
       /\ tracked' = IF w.err THEN tracked ELSE tracked \cup {p}
       /\ last' = [NoCall EXCEPT !.op = "add", !.p = p,
                                 !.tier = GetProxiesByProxyObject(World, p),
                                 !.target = GetProxiesBySerializer(s),
                                 !.raised = w.err]
       /\ UNCHANGED <<clock, device_memory_limit, host_memory_limit, store,
                      spill_on_demand_initialized, threadVars>>

\* ProxyManager.remove(p)
Remove(p) ==
    \E w \in {ManagerRemove(World, p)} :
       /\ Install(w)
       /\ tracked' = IF w.err THEN tracked ELSE tracked \ {p}
       /\ last' = [NoCall EXCEPT !.op = "remove", !.p = p,
                                 !.tier = GetProxiesByProxyObject(World, p),
                                 !.raised = w.err]
       /\ UNCHANGED <<clock, device_memory_limit, host_memory_limit, store,
                      spill_on_demand_initialized, threadVars>>

\* ProxyManager.proxify(value)
ProxifyCall(value, now) ==
    \E r \in {Proxify(World, value, now)} :
       /\ Install(r.w)
       /\ clock' = now
       /\ tracked' = IF r.w.err THEN tracked ELSE tracked \cup Range(value)
       /\ last' = [NoCall EXCEPT !.op = "proxify",
                                 !.known = Range(value) \subseteq Registered(World),
                                 !.evicts = r.evicts, !.raised = r.w.err]
       /\ UNCHANGED <<device_memory_limit, host_memory_limit, store,
                      spill_on_demand_initialized, threadVars>>

\* ProxyManager.maybe_evict(extra_dev_mem)
MaybeEvictCall(extra) ==
    \E r \in {MaybeEvict(World, extra)} :
       /\ Install(r.w)
       /\ last' = [NoCall EXCEPT !.op = "maybe_evict",
                                 !.evicts = r.evicts, !.raised = r.w.err]
       /\ UNCHANGED <<clock, device_memory_limit, host_memory_limit, store,
                      spill_on_demand_initialized, tracked, threadVars>>

\* ProxyManager.maybe_evict_from_host(extra_host_mem)
MaybeEvictFromHostCall(extra) ==
    \E r \in {MaybeEvictFromHost(World, extra)} :
       /\ Install(r.w)
       /\ last' = [NoCall EXCEPT !.op = "maybe_evict_from_host",
                                 !.evicts = r.evicts, !.raised = r.w.err]
       /\ UNCHANGED <<clock, device_memory_limit, host_memory_limit, store,
                      spill_on_demand_initialized, tracked, threadVars>>

\* ProxifyHostFile.__setitem__(key, value)
SetItemCall(key, value, now) ==
    \E r \in {SetItem(World, store, key, value, now)} :
       /\ Install(r.w)
       /\ store' = r.store
       /\ clock' = now
       /\ spill_on_demand_initialized' =
              InitializeSpillOnDemandOnce(spill_on_demand_initialized)
       /\ tracked' = IF r.w.err THEN tracked ELSE tracked \cup Range(value)
       /\ last' = [NoCall EXCEPT !.op = "setitem", !.key = key,
                                 !.known = Range(value) \subseteq Registered(World),
                                 !.evicts = r.evicts, !.raised = r.w.err]
       /\ UNCHANGED <<device_memory_limit, host_memory_limit, threadVars>>

\* ProxifyHostFile.__delitem__(key); a key not in the store raises KeyError
DelItemCall(key) ==
    \E r \in {IF key \in DOMAIN store THEN DelItem(World, store, key)
              ELSE [w |-> Raise(World), store |-> store]} :
       /\ Install(r.w)
       /\ store' = r.store
       /\ tracked' = tracked
       /\ last' = [NoCall EXCEPT !.op = "delitem", !.key = key, !.raised = r.w.err]
       /\ UNCHANGED <<clock, device_memory_limit, host_memory_limit,
                      spill_on_demand_initialized, threadVars>>

\* the allocator calls oom(nbytes); the callback exists once
\* initialize_spill_on_demand_once has registered it
OomCall(nbytes) ==
    /\ spill_on_demand_initialized = TRUE
    /\ \E r \in {Oom(World, nbytes)} :
          /\ Install(r.w)
          /\ last' = [NoCall EXCEPT !.op = "oom", !.evicts = r.evicts,
                                    !.raised = r.w.err, !.result = r.result]
          /\ UNCHANGED <<clock, device_memory_limit, host_memory_limit, store,
                         spill_on_demand_initialized, tracked, threadVars>>

\* the manager's operations, one call at a time
Next ==
    \/ \E p \in Proxy : \E s \in {"None", HostSerializerOf(p), "disk"} : Add(p, s)
    \/ \E p \in Proxy : Remove(p)
    \/ \E v \in Values, now \in Now : ProxifyCall(v, now)
    \/ \E extra \in Extras : MaybeEvictCall(extra)
    \/ \E extra \in Extras : MaybeEvictFromHostCall(extra)

Spec == Init /\ [][Next]_vars

\* the store's operations, and the removal of a proxy from the manager
NextStore ==
    \/ \E k \in Keys, v \in Values, now \in Now : SetItemCall(k, v, now)
    \/ \E k \in Keys : DelItemCall(k)
    \/ \E p \in Proxy : Remove(p)

SpecStore == Init /\ [][NextStore]_vars

\* the last reference to the tracked proxy p goes away: p's weak references
\* resolve to None from now on (no call of the engine)
Die(p) ==
    /\ ManagerContains(World, p)
    /\ p \notin dead
    /\ dead' = dead \cup {p}
    /\ last' = [NoCall EXCEPT !.op = "die", !.p = p]
    /\ UNCHANGED <<ids, mem_usage, proxy_id_to_dev_mems, dev_mem_to_proxy_ids,
                   serializer, last_access, clock, device_memory_limit,
                   host_memory_limit, store, spill_on_demand_initialized, tracked,
                   pc, frame, lock_owner, direct, managed, spillVars>>

\* the cleanup of the dead proxy p: its finalizer calls ProxyManager.remove
\* with it, after which its identity is free for a new proxy
Cleanup(p) ==
    /\ p \in dead
    /\ \E w \in {ManagerRemove(World, p)} :
          /\ Install(w)
          /\ last' = [NoCall EXCEPT !.op = "cleanup", !.p = p,
                                    !.tier = GetProxiesByProxyObject(World, p),
                                    !.raised = w.err]
    /\ dead' = dead \ {p}
    /\ tracked' = tracked \ {p}
    /\ UNCHANGED <<clock, device_memory_limit, host_memory_limit, store,
                   spill_on_demand_initialized, pc, frame, lock_owner, direct,
                   managed, spillVars>>

\* the manager's operations on the proxies that are alive, the death of
\* tracked proxies and their cleanup
NextGC ==
    \/ \E p \in Proxy \ dead : \E s \in {"None", HostSerializerOf(p)} : Add(p, s)
    \/ \E v \in Values, now \in Now : Range(v) \cap dead = {} /\ ProxifyCall(v, now)
    \/ \E extra \in Extras : MaybeEvictCall(extra)
    \/ \E p \in Proxy : Die(p)
    \/ \E p \in Proxy : Cleanup(p)

SpecGC == Init /\ [][NextGC]_vars

\* inserts and evictions while the proxies of Mortal die and are cleaned up
NextGCFair ==
    \/ \E v \in Values, now \in Now : Range(v) \cap dead = {} /\ ProxifyCall(v, now)
    \/ \E extra \in Extras : MaybeEvictCall(extra)
    \/ \E p \in Mortal : Die(p)
    \/ \E p \in Mortal : Cleanup(p)

\* the finalizer of a proxy that died runs
SpecGCFair == Init /\ [][NextGCFair]_vars /\ \A p \in Mortal : WF_vars(Cleanup(p))

\* a store constructed with a host limit of FastHostLimits
InitFast ==
    /\ ids = [t \in Tiers |-> <<>>]
    /\ mem_usage = [t \in Tiers |-> 0]
    /\ proxy_id_to_dev_mems = [q \in {} |-> {}]
    /\ dev_mem_to_proxy_ids = [b \in Buf |-> {}]
    /\ serializer = [p \in Proxy |-> "None"]
    /\ last_access = [p \in Proxy |-> 0]
    /\ clock = 0
    /\ device_memory_limit \in DeviceLimits
    /\ host_memory_limit \in FastHostLimits
    /\ store = [k \in {} |-> <<>>]
    /\ spill_on_demand_initialized = FALSE
    /\ tracked = {}
    /\ last = NoCall
    /\ pc = [t \in Threads |-> "idle"]
    /\ frame = [t \in Threads |-> <<>>]
    /\ lock_owner = "none"
    /\ direct = 0
    /\ managed = FALSE
    /\ dead = {}
    /\ spill_directory = SpillPath(NoPath, NoPath, Cwd)
    /\ spill_shared_filesystem = "False"
    /\ spill_to_disk_counter = 0
    /\ file_lock_owner = "none"
    /\ returned = <<>>

\* the worker reads ProxifyHostFile.fast
FastCall ==
    /\ last' = [NoCall EXCEPT !.op = "fast", !.result = Fast(World)]
    /\ UNCHANGED <<ids, mem_usage, proxy_id_to_dev_mems, dev_mem_to_proxy_ids,
                   serializer, last_access, clock, device_memory_limit,
                   host_memory_limit, store, spill_on_demand_initialized, tracked,
                   threadVars>>

\* the worker holds an evictor that it has not called: FastEvictCall is
\* enabled (and changes last) exactly in these states
EvictorPending == last.op = "fast" /\ last.result

\* the worker calls evict() of the evictor that fast has just returned
FastEvictCall ==
    /\ EvictorPending
    /\ \E r \in {FastEvict(World)} :
          /\ Install(r.w)
          /\ last' = [NoCall EXCEPT !.op = "fast_evict", !.evicts = r.evicts,
                                    !.raised = r.w.err]
    /\ UNCHANGED <<clock, device_memory_limit, host_memory_limit, store,
                   spill_on_demand_initialized, tracked, threadVars>>

\* inserts under new keys, handles that arrive serialized for the host,
\* and the worker's spilling loop "while fast: fast.evict()"
NextFast ==
    \/ \E k \in FastKeys \ DOMAIN store, v \in Values, now \in Now : SetItemCall(k, v, now)
    \/ \E p \in Proxy \ Registered(World) : Add(p, HostSerializerOf(p))
    \/ FastCall
    \/ FastEvictCall

\* the worker's loop goes on: it reads fast, and calls the evictor it got
\* (weak fairness of FastEvictCall, its enabling condition written out)
SpecFast ==
    /\ InitFast /\ [][NextFast]_vars
    /\ WF_vars(FastCall)
    /\ ([]<>(~EvictorPending) \/ []<><<FastEvictCall>>_vars)

\* a store constructed with a device limit below the size of two buffers
InitFaults ==
    /\ ids = [t \in Tiers |-> <<>>]
    /\ mem_usage = [t \in Tiers |-> 0]
    /\ proxy_id_to_dev_mems = [q \in {} |-> {}]
    /\ dev_mem_to_proxy_ids = [b \in Buf |-> {}]
    /\ serializer = [p \in Proxy |-> "None"]
    /\ last_access = [p \in Proxy |-> 0]
    /\ clock = 0
    /\ device_memory_limit \in FaultDeviceLimits
    /\ host_memory_limit \in HostLimits
    /\ store = [k \in {} |-> <<>>]
    /\ spill_on_demand_initialized = FALSE
    /\ tracked = {}
    /\ last = NoCall
    /\ pc = [t \in Threads |-> "idle"]
    /\ frame = [t \in Threads |-> <<>>]
    /\ lock_owner = "none"
    /\ direct = 0
    /\ managed = FALSE
    /\ dead = {}
    /\ spill_directory = SpillPath(NoPath, NoPath, Cwd)
    /\ spill_shared_filesystem = "False"
    /\ spill_to_disk_counter = 0
    /\ file_lock_owner = "none"
    /\ returned = <<>>

\* ProxifyHostFile.__setitem__(key, value) during which the serialization
\* of the proxies in faulty fails
SetItemFaultCall(key, value, now, faulty) ==
    \E r \in {SetItem([World EXCEPT !.faulty = faulty], store, key, value, now)} :
       /\ Install(r.w)
       /\ store' = r.store
       /\ clock' = now
       /\ spill_on_demand_initialized' =
              InitializeSpillOnDemandOnce(spill_on_demand_initialized)
       /\ tracked' = IF r.w.err THEN tracked ELSE tracked \cup Range(value)
       /\ last' = [NoCall EXCEPT !.op = "setitem", !.key = key,
                                 !.known = Range(value) \subseteq Registered(World),
                                 !.evicts = r.evicts, !.raised = r.w.err,
                                 !.faulty = faulty]
       /\ UNCHANGED <<device_memory_limit, host_memory_limit, threadVars>>

\* the store's insertions with failing serializations, and the handles'
\* reports to the manager
NextFaults ==
    \/ \E k \in Keys, v \in Values, now \in Now, f \in FaultSets :
          SetItemFaultCall(k, v, now, f)
    \/ \E p \in Proxy : \E s \in {"None", HostSerializerOf(p)} : Add(p, s)

SpecFaults == InitFaults /\ [][NextFaults]_vars

\* the store's insertions, the handles' reports to the manager and the
\* allocator's out-of-memory callback
NextOom ==
    \/ \E k \in Keys, v \in Values, now \in Now : SetItemCall(k, v, now)
    \/ \E p \in Proxy : \E s \in {"None", HostSerializerOf(p)} : Add(p, s)
    \/ \E nbytes \in OomBytes : OomCall(nbytes)

SpecOom == Init /\ [][NextOom]_vars

\* ------------------------------------------- statement by statement

\* frame[t] of a thread in a call.  call: the method; p: its proxy; tier:
\* the registry Proxies.remove works on; target: the registry Proxies.add
\* works on; i: the next registry of get_proxies_by_proxy_object; tmp: the
\* tally read by "+=" / "-="; locked: the call holds the manager's lock;
\* found, raised: what the call returns; valid (history): p was registered
\* when the call began and no remove took it out since; waited (history):
\* the manager's lock was held by the other thread when the call began
NewFrame(call, p, target) ==
    [call |-> call, p |-> p, tier |-> "none", target |-> target, i |-> 1, tmp |-> 0,
     locked |-> FALSE, found |-> FALSE, raised |-> FALSE,
     valid |-> p \in tracked, waited |-> lock_owner # "none"]

\* the order in which get_proxies_by_proxy_object asks the registries
LocateOrder == <<"dev", "host", "disk">>

\* mutant: the manager's lock is taken without waiting for it
LockIgnored(t) == TRUE

\* with self.lock: the RLock of the manager can be taken by thread t
LockFree(t) == lock_owner \in {"none", t}

setFrame(t, f) == frame' = [frame EXCEPT ![t] = f]
goto(t, label) == pc' = [pc EXCEPT ![t] = label]
seqVars == <<clock, device_memory_limit, host_memory_limit, store,
             spill_on_demand_initialized, last, dead, spillVars>>

\* a call returns: the manager's lock is released when the call holds it
Return(t, f) ==
    /\ goto(t, "ret")
    /\ setFrame(t, [f EXCEPT !.locked = FALSE])
    /\ lock_owner' = IF f.locked THEN "none" ELSE lock_owner

\* thread t calls ProxyManager.add(p, s), .remove(p), .contains(id(p)) or
\* .get_proxies_by_proxy_object(p)
CallManager(t) ==
    /\ pc[t] = "idle"
    /\ \E p \in ThreadProxies :
          \/ \E s \in {"None", "dask", "disk"} :
                /\ setFrame(t, NewFrame("add", p, GetProxiesBySerializer(s)))
                /\ goto(t, "lock")
          \/ \E call \in {"remove", "contains"} :
                /\ setFrame(t, NewFrame(call, p, "none"))
                /\ goto(t, "lock")
          \/ /\ setFrame(t, NewFrame("locate", p, "none"))
             /\ goto(t, "look")
    /\ managed' = TRUE
    /\ UNCHANGED <<ids, mem_usage, proxy_id_to_dev_mems, dev_mem_to_proxy_ids,
                   serializer, last_access, tracked, lock_owner, direct, seqVars>>

\* thread t calls Proxies.add(p) or Proxies.remove(p) on the host registry
CallRegistry(t) ==
    /\ pc[t] = "idle"
    /\ direct < MaxDirectCalls
    /\ \E p \in ThreadProxies :
          \/ /\ setFrame(t, NewFrame("registry_add", p, "host"))
             /\ goto(t, "add_assert")
          \/ /\ setFrame(t, [NewFrame("registry_remove", p, "none") EXCEPT !.tier = "host"])
             /\ goto(t, "remove_del")
    /\ direct' = direct + 1
    /\ UNCHANGED <<ids, mem_usage, proxy_id_to_dev_mems, dev_mem_to_proxy_ids,
                   serializer, last_access, tracked, lock_owner, managed, seqVars>>

\* with self.lock, and the statements of add, remove and contains that
\* only read the registries
AcquireLock(t) ==
    LET f == frame[t]
        w == World
    IN /\ pc[t] = "lock"
       /\ LockFree(t)
       /\ lock_owner' = t
       /\ CASE f.call = "add" ->
                 LET old_proxies == GetProxiesByProxyObject(w, f.p)
                 IN /\ setFrame(t, [f EXCEPT !.locked = TRUE, !.tier = old_proxies])
                    /\ goto(t, IF old_proxies = f.target THEN "unlock"
                               ELSE IF old_proxies # "none" THEN "remove_del"
                               ELSE "add_assert")
            [] f.call = "remove" ->
                 LET unknown == Cardinality({x \in Tiers : ContainsProxyId(w, x, f.p)}) # 1
                 IN /\ setFrame(t, [f EXCEPT !.locked = TRUE, !.raised = unknown,
                                             !.tier = GetProxiesByProxyObject(w, f.p)])
                    /\ goto(t, IF unknown THEN "unlock" ELSE "remove_del")
            [] OTHER ->
                 /\ setFrame(t, [f EXCEPT !.locked = TRUE, !.found = ManagerContains(w, f.p)])
                 /\ goto(t, "unlock")
       /\ UNCHANGED <<ids, mem_usage, proxy_id_to_dev_mems, dev_mem_to_proxy_ids,
                      serializer, last_access, tracked, direct, managed, seqVars>>

\* one contains_proxy_id of get_proxies_by_proxy_object, called without the
\* manager's lock
Look(t) ==
    LET f == frame[t]
    IN /\ pc[t] = "look"
       /\ IF ContainsProxyId(World, LocateOrder[f.i], f.p)
          THEN Return(t, [f EXCEPT !.found = TRUE])
          ELSE IF f.i = Len(LocateOrder) THEN Return(t, f)
          ELSE /\ setFrame(t, [f EXCEPT !.i = @ + 1])
               /\ UNCHANGED <<pc, lock_owner>>
       /\ UNCHANGED <<ids, mem_usage, proxy_id_to_dev_mems, dev_mem_to_proxy_ids,
                      serializer, last_access, tracked, direct, managed, seqVars>>

\* Proxies.remove: with self._lock: del self._proxy_id_to_proxy[id(proxy)]
RemoveDel(t) ==
    LET f == frame[t]
        gone == f.call \in {"remove", "registry_remove"}
    IN /\ pc[t] = "remove_del"
       /\ IF ~ContainsProxyId(World, f.tier, f.p)
          THEN /\ Return(t, [f EXCEPT !.raised = TRUE])
               /\ UNCHANGED <<ids, tracked>>
          ELSE /\ ids' = [ids EXCEPT ![f.tier] = MapDelete(@, f.p)]
               /\ tracked' = IF gone THEN tracked \ {f.p} ELSE tracked
               /\ frame' = [u \in Threads |->
                              IF u # t /\ gone /\ pc[u] # "idle" /\ frame[u].p = f.p
                              THEN [frame[u] EXCEPT !.valid = FALSE] ELSE frame[u]]
               /\ goto(t, IF f.tier = "dev" THEN "remove_dev" ELSE "remove_read")
               /\ UNCHANGED lock_owner
       /\ UNCHANGED <<mem_usage, proxy_id_to_dev_mems, dev_mem_to_proxy_ids,
                      serializer, last_access, direct, managed, seqVars>>

\* ProxiesOnDevice.mem_usage_remove
RemoveDev(t) ==
    LET f == frame[t]
        w == DevMemUsageRemove(World, f.p)
    IN /\ pc[t] = "remove_dev"
       /\ Install(w)
       /\ IF w.err THEN Return(t, [f EXCEPT !.raised = TRUE])
          ELSE goto(t, "remove_reset") /\ UNCHANGED <<frame, lock_owner>>
       /\ UNCHANGED <<tracked, direct, managed, seqVars>>

\* ProxiesOnHost.mem_usage_remove: "self._mem_usage -= sizeof(proxy)" reads
\* the tally ...
RemoveRead(t) ==
    /\ pc[t] = "remove_read"
    /\ setFrame(t, [frame[t] EXCEPT !.tmp = mem_usage[frame[t].tier]])
    /\ goto(t, "remove_write")
    /\ UNCHANGED <<ids, mem_usage, proxy_id_to_dev_mems, dev_mem_to_proxy_ids,
                   serializer, last_access, tracked, lock_owner, direct, managed, seqVars>>

\* ... and stores the difference
RemoveWrite(t) ==
    LET f == frame[t]
    IN /\ pc[t] = "remove_write"
       /\ mem_usage' = [mem_usage EXCEPT ![f.tier] = f.tmp - SizeOfProxy(f.p)]
       /\ goto(t, "remove_reset")
       /\ UNCHANGED <<ids, proxy_id_to_dev_mems, dev_mem_to_proxy_ids, serializer,
                      last_access, tracked, frame, lock_owner, direct, managed, seqVars>>

\* the tally reset at the end of Proxies.remove; ProxyManager.add goes on
\* with new_proxies.add(proxy)
RemoveReset(t) ==
    LET f == frame[t]
    IN /\ pc[t] = "remove_reset"
       /\ Install(ResetEmptyTally(World, f.tier))
       /\ IF f.call = "add"
          THEN goto(t, "add_assert") /\ UNCHANGED <<frame, lock_owner>>
          ELSE Return(t, f)
       /\ UNCHANGED <<tracked, direct, managed, seqVars>>

\* Proxies.add: assert not self.contains_proxy_id(id(proxy))
AddAssert(t) ==
    LET f == frame[t]
    IN /\ pc[t] = "add_assert"
       /\ IF ContainsProxyId(World, f.target, f.p)
          THEN Return(t, [f EXCEPT !.raised = TRUE])
          ELSE goto(t, "add_insert") /\ UNCHANGED <<frame, lock_owner>>
       /\ UNCHANGED <<ids, mem_usage, proxy_id_to_dev_mems, dev_mem_to_proxy_ids,
                      serializer, last_access, tracked, direct, managed, seqVars>>

\* Proxies.add: with self._lock: self._proxy_id_to_proxy[id(proxy)] = ...
AddInsert(t) ==
    LET f == frame[t]
    IN /\ pc[t] = "add_insert"
       /\ ids' = [ids EXCEPT ![f.target] = MapInsert(@, f.p)]
       /\ tracked' = tracked \cup {f.p}
       /\ goto(t, IF f.target = "dev" THEN "add_dev" ELSE "add_read")
       /\ UNCHANGED <<mem_usage, proxy_id_to_dev_mems, dev_mem_to_proxy_ids, serializer,
                      last_access, frame, lock_owner, direct, managed, seqVars>>

\* ProxiesOnDevice.mem_usage_add
AddDev(t) ==
    LET f == frame[t]
        w == DevMemUsageAdd(World, f.p)
    IN /\ pc[t] = "add_dev"
       /\ Install(w)
       /\ Return(t, [f EXCEPT !.raised = w.err])
       /\ UNCHANGED <<tracked, direct, managed, seqVars>>

\* ProxiesOnHost.mem_usage_add: "self._mem_usage += sizeof(proxy)" reads
\* the tally ...
AddRead(t) ==
    /\ pc[t] = "add_read"
    /\ setFrame(t, [frame[t] EXCEPT !.tmp = mem_usage[frame[t].target]])
    /\ goto(t, "add_write")
    /\ UNCHANGED <<ids, mem_usage, proxy_id_to_dev_mems, dev_mem_to_proxy_ids,
                   serializer, last_access, tracked, lock_owner, direct, managed, seqVars>>

\* ... and stores the sum
AddWrite(t) ==
    LET f == frame[t]
    IN /\ pc[t] = "add_write"
       /\ mem_usage' = [mem_usage EXCEPT ![f.target] = f.tmp + SizeOfProxy(f.p)]
       /\ Return(t, f)
       /\ UNCHANGED <<ids, proxy_id_to_dev_mems, dev_mem_to_proxy_ids, serializer,
                      last_access, tracked, direct, managed, seqVars>>

\* the end of "with self.lock" of a call that changed nothing
Unlock(t) ==
    /\ pc[t] = "unlock"
    /\ Return(t, frame[t])
    /\ UNCHANGED <<ids, mem_usage, proxy_id_to_dev_mems, dev_mem_to_proxy_ids,
                   serializer, last_access, tracked, direct, managed, seqVars>>

\* the caller has the call's result
Returned(t) ==
    /\ pc[t] = "ret"
    /\ goto(t, "idle")
    /\ setFrame(t, <<>>)
    /\ UNCHANGED <<ids, mem_usage, proxy_id_to_dev_mems, dev_mem_to_proxy_ids,
                   serializer, last_access, tracked, lock_owner, direct, managed, seqVars>>

NextThreads ==
    \E t \in Threads :
        \/ CallManager(t)
        \/ CallRegistry(t)
        \/ AcquireLock(t)
        \/ Look(t)
        \/ RemoveDel(t)
        \/ RemoveDev(t)
        \/ RemoveRead(t)
        \/ RemoveWrite(t)
        \/ RemoveReset(t)
        \/ AddAssert(t)
        \/ AddInsert(t)
        \/ AddDev(t)
        \/ AddRead(t)
        \/ AddWrite(t)
        \/ Unlock(t)
        \/ Returned(t)

SpecThreads == Init /\ [][NextThreads]_vars

\* ------------------------------- the spill directory and the file names

managerVars == <<ids, mem_usage, proxy_id_to_dev_mems, dev_mem_to_proxy_ids,
                 serializer, last_access, clock, device_memory_limit,
                 host_memory_limit, store, spill_on_demand_initialized, tracked,
                 last, lock_owner, direct, managed, dead>>

\* the class state of ProxifyHostFile before the first store is constructed
InitDisk ==
    /\ ids = [t \in Tiers |-> <<>>]
    /\ mem_usage = [t \in Tiers |-> 0]
    /\ proxy_id_to_dev_mems = [q \in {} |-> {}]
    /\ dev_mem_to_proxy_ids = [b \in Buf |-> {}]
    /\ serializer = [p \in Proxy |-> "None"]
    /\ last_access = [p \in Proxy |-> 0]
    /\ clock = 0
    /\ device_memory_limit \in DeviceLimits
    /\ host_memory_limit \in HostLimits
    /\ store = [k \in {} |-> <<>>]
    /\ spill_on_demand_initialized = FALSE
    /\ tracked = {}
    /\ last = NoCall
    /\ pc = [t \in Threads |-> "idle"]
    /\ frame = [t \in Threads |-> <<>>]
    /\ lock_owner = "none"
    /\ direct = 0
    /\ managed = FALSE
    /\ dead = {}
    /\ spill_directory = NoPath
    /\ spill_shared_filesystem = "unset"
    /\ spill_to_disk_counter = 0
    /\ file_lock_owner = "none"
    /\ returned = <<>>

\* frame[t] of a thread in register_disk_spilling or gen_file_path.  path:
\* the path the registration resolved; shared: its shared_filesystem
\* argument; tmp: the counter read by "+="; raised: the call raised;
\* waited (history): ProxifyHostFile.lock was held when the call began
DiskFrame(call, path, shared) ==
    [call |-> call, path |-> path, shared |-> shared, tmp |-> 0, raised |-> FALSE,
     waited |-> file_lock_owner # "none"]

\* the gen_file_path calls begun and not ended
GenCalls == {t \in Threads : pc[t] \in {"gen_lock", "gen_read", "gen_write",
                                         "gen_assert", "gen_return"}}

\* mutant: ProxifyHostFile.lock is taken without waiting for it
FileLockIgnored(t) == TRUE

\* with cls.lock: the class's RLock can be taken by thread t
FileLockFree(t) == file_lock_owner \in {"none", t}

\* os.path.join(cls._spill_directory, f"{cls._spill_to_disk_prefix}-{counter}")
FilePath(directory, counter) == [dir |-> directory, name |-> <<"spilled-data", counter>>]

\* thread t calls register_disk_spilling(local_directory, shared_filesystem),
\* which resolves the path, or gen_file_path()
CallDisk(t) ==
    /\ pc[t] = "idle"
    /\ \/ \E ld \in LocalDirectories, tmp \in TemporaryDirectories,
             sh \in SharedFilesystems :
             /\ setFrame(t, DiskFrame("register", SpillPath(ld, tmp, Cwd), sh))
             /\ goto(t, "reg_is_none")
       \/ /\ Len(returned) + Cardinality(GenCalls) < MaxFiles
          /\ setFrame(t, DiskFrame("gen_file_path", NoPath, "None"))
          /\ goto(t, "gen_lock")
    /\ UNCHANGED <<managerVars, spillVars>>

\* if cls._spill_directory is None:
RegIsNone(t) ==
    /\ pc[t] = "reg_is_none"
    /\ goto(t, IF spill_directory = NoPath THEN "reg_set" ELSE "reg_differs")
    /\ UNCHANGED <<frame, managerVars, spillVars>>

\* cls._spill_directory = path
RegSet(t) ==
    /\ pc[t] = "reg_set"
    /\ spill_directory' = frame[t].path
    /\ goto(t, "reg_flag")
    /\ UNCHANGED <<frame, managerVars, spill_shared_filesystem,
                   spill_to_disk_counter, file_lock_owner, returned>>

\* elif cls._spill_directory != path: raise ValueError(...)
RegDiffers(t) ==
    /\ pc[t] = "reg_differs"
    /\ IF spill_directory # frame[t].path
       THEN /\ setFrame(t, [frame[t] EXCEPT !.raised = TRUE])
            /\ goto(t, "ret")
       ELSE /\ goto(t, "reg_flag")
            /\ UNCHANGED frame
    /\ UNCHANGED <<managerVars, spillVars>>

\* os.makedirs(...), then cls._spill_shared_filesystem is assigned the
\* argument, or the configuration's value when the argument is None
RegFlag(t) ==
    /\ pc[t] = "reg_flag"
    /\ \E cfg \in SharedFsConfigs :
          spill_shared_filesystem' =
              IF frame[t].shared = "None" THEN ConfigGet(cfg, "False")
              ELSE frame[t].shared
    /\ goto(t, "ret")
    /\ UNCHANGED <<frame, managerVars, spill_directory, spill_to_disk_counter,
                   file_lock_owner, returned>>

\* with cls.lock:
GenLock(t) ==
    /\ pc[t] = "gen_lock"
    /\ FileLockFree(t)
    /\ file_lock_owner' = t
    /\ goto(t, "gen_read")
    /\ UNCHANGED <<frame, managerVars, spill_directory, spill_shared_filesystem,
                   spill_to_disk_counter, returned>>

\* cls._spill_to_disk_counter += 1: the read
GenRead(t) ==
    /\ pc[t] = "gen_read"
    /\ setFrame(t, [frame[t] EXCEPT !.tmp = spill_to_disk_counter])
    /\ goto(t, "gen_write")
    /\ UNCHANGED <<managerVars, spillVars>>

\* cls._spill_to_disk_counter += 1: the write
GenWrite(t) ==
    /\ pc[t] = "gen_write"
    /\ spill_to_disk_counter' = frame[t].tmp + 1
    /\ goto(t, "gen_assert")
    /\ UNCHANGED <<frame, managerVars, spill_directory, spill_shared_filesystem,
                   file_lock_owner, returned>>

\* the lock is released when the call leaves the with block
GenLeave(t, result) ==
    /\ file_lock_owner' = IF file_lock_owner = t THEN "none" ELSE file_lock_owner
    /\ returned' = Append(returned, result)
    /\ goto(t, "ret")

\* assert cls._spill_directory is not None
GenAssert(t) ==
    /\ pc[t] = "gen_assert"
    /\ IF spill_directory = NoPath
       THEN /\ GenLeave(t, [t |-> t, ok |-> FALSE, waited |-> frame[t].waited,
                             path |-> FilePath(NoPath, 0)])
            /\ setFrame(t, [frame[t] EXCEPT !.raised = TRUE])
       ELSE /\ goto(t, "gen_return")
            /\ UNCHANGED <<frame, file_lock_owner, returned>>
    /\ UNCHANGED <<managerVars, spill_directory, spill_shared_filesystem,
                   spill_to_disk_counter>>

\* return os.path.join(cls._spill_directory, f"{prefix}-{counter}")
GenReturn(t) ==
    /\ pc[t] = "gen_return"
    /\ GenLeave(t, [t |-> t, ok |-> TRUE, waited |-> frame[t].waited,
                    path |-> FilePath(spill_directory, spill_to_disk_counter)])
    /\ UNCHANGED <<frame, managerVars, spill_directory, spill_shared_filesystem,
                   spill_to_disk_counter>>

\* the caller has the call's result
ReturnedDisk(t) ==
    /\ pc[t] = "ret"
    /\ goto(t, "idle")
    /\ setFrame(t, <<>>)
    /\ UNCHANGED <<managerVars, spillVars>>

NextDisk ==
    \E t \in Threads :
        \/ CallDisk(t)
        \/ RegIsNone(t)
        \/ RegSet(t)
        \/ RegDiffers(t)
        \/ RegFlag(t)
        \/ GenLock(t)
        \/ GenRead(t)
        \/ GenWrite(t)
        \/ GenAssert(t)
        \/ GenReturn(t)
        \/ ReturnedDisk(t)

SpecDisk == InitDisk /\ [][NextDisk]_vars

\* ------------------------------------ the demotions of concurrent calls

\* Specification SpecDemotion runs __setitem__, __delitem__, the evict() of
\* the object that fast returns and ProxyManager.remove in two threads, with
\* the manager's lock and the lock of ProxifyHostFile.  Statements that run
\* under a lock are one step from the taking of the lock or to its release.

\* the values stored and the proxies removed
DemotionValues == {<<"p1", "p2">>, <<"p3">>}
DemotionRemoves == {"p1", "p3"}

registryVars == <<ids, mem_usage, proxy_id_to_dev_mems, dev_mem_to_proxy_ids,
                  serializer, last_access, tracked>>

\* what no step of SpecDemotion assigns
demotionFixed == <<device_memory_limit, host_memory_limit, direct, managed, dead,
                   spill_directory, spill_shared_filesystem, returned>>

\* frame[t] of a thread in a call.  call: the method; key, value: the
\* arguments of __setitem__ / __delitem__; p: the proxy of remove, then the
\* proxy the serializer is called with; tier: the registry evict takes its
\* snapshot of; nbytes: the argument of evict; proxies_to_serialize,
\* serialized_proxies: the locals of evict; raised: the call raised
DemotionFrame(call, key, value, p) ==
    [call |-> call, key |-> key, value |-> value, p |-> p, tier |-> "none",
     nbytes |-> 0, proxies_to_serialize |-> <<>>, serialized_proxies |-> {},
     raised |-> FALSE]

\* the positions at which a thread waits for ProxifyHostFile.lock and for
\* the manager's lock
StoreLockWaits == {"set_lock", "del_lock", "ser_path"}
ManagerLockWaits == {"proxify_lock", "evict_lock", "ser_set", "remove_lock"}

\* thread t calls store[key] = value, del store[key], the evict() of
\* store.fast or manager.remove(p)
CallDemotion(t) ==
    /\ pc[t] = "idle"
    /\ \/ \E key \in Keys, value \in DemotionValues :
             /\ setFrame(t, DemotionFrame("setitem", key, value, "none"))
             /\ goto(t, "set_lock")
       \/ \E key \in Keys :
             /\ setFrame(t, DemotionFrame("delitem", key, <<>>, "none"))
             /\ goto(t, "del_lock")
       \/ /\ setFrame(t, [DemotionFrame("evictor", "none", <<>>, "none") EXCEPT
                             !.tier = "host",
                             !.nbytes = OnePercent(host_memory_limit)])
          /\ goto(t, "evict_lock")
       \/ \E p \in DemotionRemoves :
             /\ setFrame(t, DemotionFrame("remove", "none", <<>>, p))
             /\ goto(t, "remove_lock")
    /\ UNCHANGED <<registryVars, clock, store, spill_on_demand_initialized, last,
                   lock_owner, spill_to_disk_counter, file_lock_owner, demotionFixed>>

\* __setitem__: with self.lock, initialize_spill_on_demand_once() and the
\* del self[key] of a key in the store (the RLock is taken again in
\* __delitem__ by the thread that holds it)
SetLock(t) ==
    /\ pc[t] = "set_lock"
    /\ FileLockFree(t)
    /\ file_lock_owner' = t
    /\ spill_on_demand_initialized' = InitializeSpillOnDemandOnce(spill_on_demand_initialized)
    /\ store' = IF frame[t].key \in DOMAIN store
                THEN DelItem(World, store, frame[t].key).store ELSE store
    /\ goto(t, "proxify_lock")
    /\ UNCHANGED <<registryVars, clock, last, frame, lock_owner,
                   spill_to_disk_counter, demotionFixed>>

\* proxify: with self.lock
ProxifyLock(t) ==
    /\ pc[t] = "proxify_lock"
    /\ LockFree(t)
    /\ lock_owner' = t
    /\ goto(t, "proxify_track")
    /\ UNCHANGED <<registryVars, clock, store, spill_on_demand_initialized, last,
                   frame, spill_to_disk_counter, file_lock_owner, demotionFixed>>

\* proxify: the loop over found_proxies, after which the lock is released
ProxifyTrack(t) ==
    /\ pc[t] = "proxify_track"
    /\ \E now \in Now :
          /\ \E w \in {TrackFound(World, frame[t].value, now)} :
                /\ Install(w)
                /\ tracked' = Registered(w)
          /\ clock' = now
    /\ lock_owner' = "none"
    /\ goto(t, "device_check")
    /\ UNCHANGED <<store, spill_on_demand_initialized, last, frame,
                   spill_to_disk_counter, file_lock_owner, demotionFixed>>

\* maybe_evict_from_device(0): evict is called when the device is over its limit
DeviceCheck(t) ==
    LET mem_over_usage == mem_usage["dev"] + 0 - device_memory_limit
    IN /\ pc[t] = "device_check"
       /\ IF mem_over_usage > 0
          THEN /\ setFrame(t, [frame[t] EXCEPT !.tier = "dev", !.nbytes = mem_over_usage])
               /\ goto(t, "evict_lock")
          ELSE /\ goto(t, "host_check")
               /\ UNCHANGED frame
       /\ UNCHANGED <<registryVars, clock, store, spill_on_demand_initialized, last,
                      lock_owner, spill_to_disk_counter, file_lock_owner, demotionFixed>>

\* maybe_evict_from_host(0): evict is called when the host is over its limit
HostCheck(t) ==
    LET mem_over_usage == mem_usage["host"] + 0 - host_memory_limit
    IN /\ pc[t] = "host_check"
       /\ IF mem_over_usage > 0
          THEN /\ setFrame(t, [frame[t] EXCEPT !.tier = "host", !.nbytes = mem_over_usage])
               /\ goto(t, "evict_lock")
          ELSE /\ goto(t, "set_store")
               /\ UNCHANGED frame
       /\ UNCHANGED <<registryVars, clock, store, spill_on_demand_initialized, last,
                      lock_owner, spill_to_disk_counter, file_lock_owner, demotionFixed>>

\* evict: with self.lock
EvictLock(t) ==
    /\ pc[t] = "evict_lock"
    /\ LockFree(t)
    /\ lock_owner' = t
    /\ goto(t, "evict_snapshot")
    /\ UNCHANGED <<registryVars, clock, store, spill_on_demand_initialized, last,
                   frame, spill_to_disk_counter, file_lock_owner, demotionFixed>>

\* evict: the snapshot, its sort and the walk that collects
\* proxies_to_serialize, after which the lock is released
EvictSnapshot(t) ==
    /\ pc[t] = "evict_snapshot"
    /\ \E access \in {SortAccess(ProxiesAccess(World, frame[t].tier))} :
          setFrame(t, [frame[t] EXCEPT
                          !.proxies_to_serialize =
                              ConcatProxies(SubSeq(access, 1,
                                                   WalkLen(access, 1, 0, frame[t].nbytes))),
                          !.serialized_proxies = {}])
    /\ lock_owner' = "none"
    /\ goto(t, "evict_next")
    /\ UNCHANGED <<registryVars, clock, store, spill_on_demand_initialized, last,
                   spill_to_disk_counter, file_lock_owner, demotionFixed>>

\* the call that follows an evict that has returned
AfterEvict(f) ==
    IF f.call = "evictor" THEN "idle"
    ELSE IF f.tier = "dev" THEN "host_check"
    ELSE "set_store"

\* evict: one turn of the loop over proxies_to_serialize.  A proxy not in
\* serialized_proxies is added to it and serializer(p) is called: last
\* records the call, the registry p is in at that moment (target) and
\* whether that is the registry of the snapshot (known).  The serializer of
\* the host reads the proxy's detail and asks for a file path when the
\* proxy is serialized
EvictNext(t) ==
    LET f == frame[t]
        p == Head(f.proxies_to_serialize)
    IN /\ pc[t] = "evict_next"
       /\ IF f.proxies_to_serialize = <<>>
          THEN /\ goto(t, AfterEvict(f))
               /\ setFrame(t, IF AfterEvict(f) = "idle" THEN <<>> ELSE f)
               /\ UNCHANGED last
          ELSE IF p \in f.serialized_proxies
          THEN /\ setFrame(t, [f EXCEPT !.proxies_to_serialize = Tail(@)])
               /\ UNCHANGED <<pc, last>>
          ELSE /\ setFrame(t, [f EXCEPT !.proxies_to_serialize = Tail(@),
                                        !.serialized_proxies = @ \cup {p},
                                        !.p = p])
               /\ last' = [NoCall EXCEPT
                              !.op = "serializer", !.p = p, !.tier = f.tier,
                              !.target = GetProxiesByProxyObject(World, p),
                              !.known = ContainsProxyId(World, f.tier, p)]
               /\ goto(t, IF f.tier = "host" /\ serializer[p] \in {"dask", "pickle"}
                          THEN "ser_path" ELSE "ser_io")
       /\ UNCHANGED <<registryVars, clock, store, spill_on_demand_initialized,
                      lock_owner, spill_to_disk_counter, file_lock_owner, demotionFixed>>

\* serialize_proxy_to_disk_inplace: path = cls.gen_file_path(), which takes
\* ProxifyHostFile.lock, increments the counter and releases the lock (a
\* thread that holds the lock keeps it)
SerializerPath(t) ==
    /\ pc[t] = "ser_path"
    /\ FileLockFree(t)
    /\ spill_to_disk_counter' = spill_to_disk_counter + 1
    /\ goto(t, "ser_io")
    /\ UNCHANGED <<registryVars, clock, store, spill_on_demand_initialized, last,
                   frame, lock_owner, file_lock_owner, demotionFixed>>

\* the serializer serializes the proxy or writes its frames to the file
SerializerWrite(t) ==
    /\ pc[t] = "ser_io"
    /\ goto(t, "ser_set")
    /\ UNCHANGED <<registryVars, clock, store, spill_on_demand_initialized, last,
                   frame, lock_owner, spill_to_disk_counter, file_lock_owner,
                   demotionFixed>>

\* the serializer sets the proxy's detail: the proxy reports itself to
\* ProxyManager.add, which takes the manager's lock
SerializerSet(t) ==
    /\ pc[t] = "ser_set"
    /\ LockFree(t)
    /\ \E w \in {Demote(World, frame[t].tier, frame[t].p)} :
          /\ Install(w)
          /\ tracked' = Registered(w)
    /\ goto(t, "evict_next")
    /\ UNCHANGED <<clock, store, spill_on_demand_initialized, last, frame, lock_owner,
                   spill_to_disk_counter, file_lock_owner, demotionFixed>>

\* __setitem__: self.store[key] = <the value proxify returned>, after
\* which ProxifyHostFile.lock is released
SetStore(t) ==
    /\ pc[t] = "set_store"
    /\ store' = [x \in DOMAIN store \cup {frame[t].key} |->
                    IF x = frame[t].key THEN frame[t].value ELSE store[x]]
    /\ file_lock_owner' = "none"
    /\ goto(t, "idle")
    /\ setFrame(t, <<>>)
    /\ UNCHANGED <<registryVars, clock, spill_on_demand_initialized, last, lock_owner,
                   spill_to_disk_counter, demotionFixed>>

\* __delitem__: with self.lock: del self.store[key] (KeyError when the key
\* is not in the store)
DelLocked(t) ==
    /\ pc[t] = "del_lock"
    /\ FileLockFree(t)
    /\ store' = IF frame[t].key \in DOMAIN store
                THEN DelItem(World, store, frame[t].key).store ELSE store
    /\ goto(t, "idle")
    /\ setFrame(t, <<>>)
    /\ UNCHANGED <<registryVars, clock, spill_on_demand_initialized, last, lock_owner,
                   spill_to_disk_counter, file_lock_owner, demotionFixed>>

\* ProxyManager.remove(p): with self.lock, the proxy is removed from the
\* registry it is in (ValueError when it is in none)
RemoveLocked(t) ==
    /\ pc[t] = "remove_lock"
    /\ LockFree(t)
    /\ \E w \in {ManagerRemove(World, frame[t].p)} :
          /\ Install(w)
          /\ tracked' = Registered(w)
    /\ goto(t, "idle")
    /\ setFrame(t, <<>>)
    /\ UNCHANGED <<clock, store, spill_on_demand_initialized, last, lock_owner,
                   spill_to_disk_counter, file_lock_owner, demotionFixed>>

NextDemotion ==
    \E t \in Threads :
        \/ CallDemotion(t)
        \/ SetLock(t)
        \/ ProxifyLock(t)
        \/ ProxifyTrack(t)
        \/ DeviceCheck(t)
        \/ HostCheck(t)
        \/ EvictLock(t)
        \/ EvictSnapshot(t)
        \/ EvictNext(t)
        \/ SerializerPath(t)
        \/ SerializerWrite(t)
        \/ SerializerSet(t)
        \/ SetStore(t)
        \/ DelLocked(t)
        \/ RemoveLocked(t)

SpecDemotion == Init /\ [][NextDemotion]_vars

\* ------------------------------------------------------------ properties

RegisteredNow == Registered(World)

\* the number of places p has in the three registries
RegistryCount(p) ==
    Cardinality({ti \in Tiers \X (1..Cardinality(Proxy) + 1) :
                    ti[2] <= Len(ids[ti[1]]) /\ ids[ti[1]][ti[2]] = p})

Limit(tier) == IF tier = "dev" THEN device_memory_limit ELSE host_memory_limit

Registries == <<ids, mem_usage, proxy_id_to_dev_mems, dev_mem_to_proxy_ids>>

\* C1: after every call of add, remove, proxify and maybe_evict, a proxy
\* that was registered and not removed since is in exactly one of the three
\* registries, and any other proxy is in none.
C1_ExactlyOneRegistry ==
    \A p \in Proxy : RegistryCount(p) = IF p \in tracked THEN 1 ELSE 0

\* C1 witness: proxies sit in all three registries after an eviction.
C1_Witness ==
    /\ last.evicts # <<>>
    /\ \A t \in Tiers : ids[t] # <<>>

\* the device buffers that a proxy of the device registry references
DevBuffersInUse ==
    UNION {Range(PxyGetDeviceMemoryObjects(p)) : p \in Range(ids["dev"])}

\* C2: the device tally is the sum of the sizes of the distinct device
\* buffers referenced by the proxies of the device registry: an aliased
\* buffer counts once and as long as one proxy that references it is there.
C2_DeviceTally == mem_usage["dev"] = SumBufs(DevBuffersInUse)

\* C2 witness: p1 was removed from the device registry while p2, which
\* aliases p1's buffer b1 and references b2 too, stays: b1 is still counted.
C2_Witness ==
    /\ last.op = "remove" /\ last.p = "p1" /\ last.tier = "dev" /\ ~last.raised
    /\ "p2" \in Range(ids["dev"])
    /\ mem_usage["dev"] = SizeOfBuf("b1") + SizeOfBuf("b2")

\* C3: the host tally is the sum of the sizes of the proxies of the host
\* registry.
C3_HostTally == mem_usage["host"] = SumProxies(Range(ids["host"]))

\* C3 witness: an eviction moved a proxy from the host registry to the
\* disk registry and another proxy is still in the host registry.
C3_Witness ==
    /\ \E i \in 1..Len(last.evicts) :
           last.evicts[i].tier = "host" /\ last.evicts[i].order # <<>>
    /\ ids["host"] # <<>>
    /\ ids["disk"] # <<>>

\* the proxies listed in the entries of an access snapshot
SnapshotProxies(access) == Range(ConcatProxies(access))

\* C4: of every eviction that maybe_evict_from_device or
\* maybe_evict_from_host started for an overage of nbytes: when the
\* snapshot held at least nbytes, the tier's usage (with the caller's extra
\* memory) is at or below its limit afterwards; when it held less, no
\* proxy of the snapshot is left in the tier.
C4_EvictionSufficiency ==
    \A i \in 1..Len(last.evicts) :
        LET e == last.evicts[i]
        IN IF SumSizes(e.access) >= e.nbytes
           THEN mem_usage[e.tier] + e.extra <= Limit(e.tier)
           ELSE SnapshotProxies(e.access) \cap Range(ids[e.tier]) = {}

\* C4 witness: one maybe_evict evicted from the device and then from the
\* host, each time part of what the tier held.
C4_Witness ==
    /\ last.op \in {"maybe_evict", "proxify"}
    /\ Len(last.evicts) = 2
    /\ \A i \in 1..2 : /\ last.evicts[i].k < Len(last.evicts[i].access)
                       /\ last.evicts[i].order # <<>>

\* the entry a is selected before the entry b
Before(a, b) == a.time < b.time \/ (a.time = b.time /\ a.size > b.size)

Reinsertion(l) ==
    \/ l.op = "add" /\ l.tier = l.target
    \/ l.op \in {"proxify", "setitem"} /\ l.known

\* C8 as stated: a re-insertion leaves the registries and their tallies
\* unchanged.
C8_ReinsertionNoOp == [][Reinsertion(last') => UNCHANGED Registries]_vars

\* C8 amended: an add for the registry the proxy is in leaves the
\* registries and their tallies unchanged; a proxify of a value whose
\* proxies are all registered registers and removes nothing, and leaves the
\* registries and their tallies unchanged when neither the device nor the
\* host usage is over its limit (else its maybe_evict demotes proxies).
C8_ReinsertionNoOpUnlessOverLimit ==
    [][Reinsertion(last') =>
          /\ RegisteredNow' = RegisteredNow
          /\ \/ last'.op # "add" /\ mem_usage["dev"] > device_memory_limit
             \/ last'.op # "add" /\ mem_usage["host"] > host_memory_limit
             \/ UNCHANGED Registries]_vars

\* C8 witness: a proxify of registered proxies, with no eviction, after
\* which two proxies are on the device.
C8_Witness ==
    /\ last.op = "proxify" /\ last.known /\ last.evicts = <<>>
    /\ Len(ids["dev"]) >= 2

\* C9 as stated: after __setitem__ on a key that is in the store, the
\* proxies of the superseded value that are not in the new value are in no
\* registry.
C9_SetItemRemovesSuperseded ==
    [][\A k \in Keys :
          (last'.op = "setitem" /\ last'.key = k /\ ~last'.raised /\ k \in DOMAIN store)
          => (Range(store[k]) \ Range(store'[k])) \cap RegisteredNow' = {}]_vars

\* C10: __delitem__ removes the key from the store and leaves the
\* registries and their tallies unchanged.
C10_DelItemKeepsRegistries ==
    [][(last'.op = "delitem" /\ ~last'.raised) =>
          /\ last'.key \in DOMAIN store
          /\ DOMAIN store' = DOMAIN store \ {last'.key}
          /\ UNCHANGED Registries]_vars

\* C10 witness: a key was deleted and the proxies of its value are still
\* registered.
C10_Witness ==
    /\ last.op = "delitem" /\ ~last.raised
    /\ store = <<>>
    /\ Cardinality(RegisteredNow) >= 2


\* no thread is inside a call
Quiescent == \A t \in Threads : pc[t] \in {"idle", "ret"}

\* C6: while threads move a proxy between registries with ProxyManager.add,
\* every contains, get_proxies_by_proxy_object and remove of another thread,
\* about a proxy that is registered from the beginning of that call to its
\* end, finds the proxy in one registry: it never returns "not registered"
\* and never fails on "unknown proxy" or "multiple locations"
C6_ObserversFindTheProxy ==
    direct = 0 =>
        \A t \in Threads :
            (pc[t] = "ret" /\ frame[t].valid) =>
                CASE frame[t].call \in {"contains", "locate"} -> frame[t].found
                  [] frame[t].call = "remove" -> ~frame[t].raised
                  [] OTHER -> TRUE

\* every registry's tally is the one of its tracked proxies
TalliesMatch ==
    /\ mem_usage["host"] = SumProxies(Range(ids["host"]))
    /\ mem_usage["disk"] = SumProxies(Range(ids["disk"]))
    /\ mem_usage["dev"] = SumBufs(DevBuffersInUse)

\* C7 as stated: whatever the interleaving of Proxies.add and Proxies.remove
\* calls that threads make directly on one registry, once the calls have
\* returned the registry's tally is the tally of its tracked set, as after
\* any serial execution of the calls
C7_RegistryCallsSerializable ==
    (Quiescent /\ ~managed) => TalliesMatch

\* C7 amended: whatever the interleaving of ProxyManager.add and
\* ProxyManager.remove calls of different threads, once the calls have
\* returned every registry's tally is the tally of its tracked set, every
\* proxy is in at most one registry, and the registered proxies are those
\* added and not removed, as after a serial execution of the calls
C7_ManagerCallsSerializable ==
    (Quiescent /\ direct = 0) =>
        /\ TalliesMatch
        /\ \A p \in Proxy : RegistryCount(p) <= 1
        /\ RegisteredNow = tracked

\* two calls of the manager overlapped, one began while the other held the
\* lock, and both have returned with the proxy registered on the host
C7_Witness ==
    /\ Quiescent
    /\ direct = 0
    /\ \E t \in Threads, u \in Threads :
          /\ t # u
          /\ pc[t] = "ret" /\ frame[t].call = "add" /\ frame[t].waited
          /\ pc[u] = "ret" /\ frame[u].call \in {"add", "remove"}
          /\ ~frame[t].raised
    /\ ids["host"] # <<>>

\* C11: once the spill directory is set it never changes (a step of a
\* registration never assigns a set directory).
C11_DirectoryNeverChanges ==
    [][spill_directory # NoPath => spill_directory' = spill_directory]_vars

\* the counters of the names gen_file_path returned, in the order returned
ReturnedNames == SelectSeq(returned, LAMBDA r : r.ok)

\* C12: for any interleaving of gen_file_path calls the counter has been
\* incremented exactly once per call that passed its increment, every name
\* returned carries a larger counter than every name returned before it,
\* and no two calls returned the same path.
C12_UniqueFilePaths ==
    /\ spill_to_disk_counter =
           Len(returned) + Cardinality({t \in Threads : pc[t] \in {"gen_assert", "gen_return"}})
    /\ \A i, j \in 1..Len(ReturnedNames) :
           i < j => /\ ReturnedNames[i].path.name[2] < ReturnedNames[j].path.name[2]
                    /\ ReturnedNames[i].path # ReturnedNames[j].path

\* two threads returned a name, the second after waiting for the lock
C12_Witness ==
    \E i, j \in 1..Len(ReturnedNames) :
        /\ i < j
        /\ ReturnedNames[i].t # ReturnedNames[j].t
        /\ ReturnedNames[j].waited

\* the evictions of the last call
LastEvicts == {last.evicts[i] : i \in 1..Len(last.evicts)}

\* the entries an eviction walked
WalkedEntries(e) == SubSeq(e.access, 1, e.k)

\* the place of the first occurrence of x in s
FirstIndex(s, x) == CHOOSE i \in 1..Len(s) : s[i] = x /\ \A j \in 1..(i - 1) : s[j] # x

\* C17: within one evict the demotion callback is called at most once for
\* a handle, exactly once for every handle collected from the walked
\* entries, and in the order in which the handles were first collected.
C17_DemotedOnceInOrder ==
    \A e \in LastEvicts :
        LET collected == ConcatProxies(WalkedEntries(e))
        IN /\ \A i, j \in 1..Len(e.calls) : i < j => e.calls[i] # e.calls[j]
           /\ Range(e.calls) = Range(collected)
           /\ \A i, j \in 1..Len(e.calls) :
                  i < j => FirstIndex(collected, e.calls[i]) < FirstIndex(collected, e.calls[j])

\* an eviction that collected a handle from two of the entries it walked
C17_Witness ==
    \E e \in LastEvicts : \E p \in Range(e.calls) :
        Cardinality({i \in 1..e.k : p \in Range(e.access[i].proxies)}) >= 2

\* C18: for nbytes > 0 evict walks the shortest prefix of the sorted
\* snapshot whose sizes add up to nbytes or more (the whole snapshot when
\* its total is smaller), returns the sum of the sizes it walked and
\* demotes no handle that is not in a walked entry.
C18_ShortestPrefix ==
    \A e \in LastEvicts :
        e.nbytes > 0 =>
            /\ e.freed = SumSizes(WalkedEntries(e))
            /\ IF SumSizes(e.access) >= e.nbytes
               THEN /\ SumSizes(WalkedEntries(e)) >= e.nbytes
                    /\ \A i \in 0..(e.k - 1) : SumSizes(SubSeq(e.access, 1, i)) < e.nbytes
               ELSE e.k = Len(e.access)
            /\ Range(e.calls) \subseteq SnapshotProxies(WalkedEntries(e))

\* an eviction that stopped after its second entry, exactly at nbytes,
\* leaving alone a handle of an entry it did not walk
C18_Witness ==
    \E e \in LastEvicts :
        /\ e.k = 2 /\ e.k < Len(e.access)
        /\ e.freed = e.nbytes
        /\ SnapshotProxies(e.access) \ Range(e.calls) # {}

\* C19: maybe_evict checks and demotes on the device before it checks the
\* host: its evictions are the device's first and the host's second, the
\* host's snapshot holds the handles the device's eviction demoted, and when
\* each eviction found enough to evict, the device and the host usage are
\* both within their limits after the call.
C19_DeviceBeforeHost ==
    (last.op \in {"maybe_evict", "proxify"} /\ ~last.raised) =>
        /\ Len(last.evicts) <= 2
        /\ \A i, j \in 1..Len(last.evicts) :
               (i < j) =>
                   /\ last.evicts[i].tier = "dev" /\ last.evicts[j].tier = "host"
                   /\ Range(last.evicts[i].calls) \subseteq SnapshotProxies(last.evicts[j].access)
        /\ (\A e \in LastEvicts : SumSizes(e.access) >= e.nbytes) =>
               /\ mem_usage["dev"] <= device_memory_limit
               /\ mem_usage["host"] <= host_memory_limit

\* a maybe_evict whose host eviction sent to the disk a handle that its
\* device eviction had just demoted to the host
C19_Witness ==
    /\ last.op = "maybe_evict" /\ ~last.raised /\ Len(last.evicts) = 2
    /\ \A e \in LastEvicts : SumSizes(e.access) >= e.nbytes
    /\ Range(last.evicts[1].calls) \cap Range(last.evicts[2].calls) # {}

\* C20: ProxyManager.remove of a handle that is in no registry fails and
\* leaves every registry's tracked set and tally unchanged; the removal of a
\* tracked handle takes it out of the one registry that holds it and leaves
\* the tracked sets of the other registries unchanged.
C20_RemoveUnknownFails ==
    [][last'.op = "remove" =>
          IF last'.tier = "none"
          THEN last'.raised /\ UNCHANGED Registries
          ELSE /\ ~last'.raised
               /\ last'.p \in Range(ids[last'.tier])
               /\ ids' = [ids EXCEPT ![last'.tier] = MapDelete(@, last'.p)]
               /\ \A t \in Tiers \ {last'.tier} : mem_usage'[t] = mem_usage[t]]_vars

\* a failed removal of an unknown handle while other handles are tracked
C20_Witness ==
    /\ last.op = "remove" /\ last.raised /\ last.tier = "none"
    /\ RegisteredNow # {}

\* C14: the out-of-memory callback does not raise; it answers False exactly
\* when its eviction freed nothing, which is when no buffer was on the
\* device, and True exactly when its eviction freed more than 0 bytes.
C14_OomAnswer ==
    last.op = "oom" =>
        /\ ~last.raised
        /\ last.result <=> last.evicts[1].freed > 0
        /\ ~last.result <=> last.evicts[1].access = <<>>

\* the callback answered False while handles were tracked on the host
C14_Witness ==
    /\ last.op = "oom" /\ ~last.result /\ ~last.raised
    /\ ids["host"] # <<>>

\* the registry a demotion from tier moves a handle to
Destination(tier) == IF tier = "dev" THEN "host" ELSE "disk"

\* C15: when the demotion of the k-th victim of an eviction fails, the
\* eviction and the insert that made it raise (the key is not stored and
\* no eviction follows), the victims before the k-th are registered in the
\* destination registry and the k-th and later victims are still
\* registered in the registry they were in.
C15_FailurePropagates ==
    \A i \in 1..Len(last.evicts) :
        LET e == last.evicts[i]
            k == Len(e.calls)
        IN (Range(e.calls) \cap last.faulty # {}) =>
               /\ e.raised /\ last.raised
               /\ i = Len(last.evicts)
               /\ last.key \notin DOMAIN store
               /\ e.calls = SubSeq(e.order, 1, k)
               /\ e.calls[k] \in last.faulty
               /\ \A j \in 1..(k - 1) :
                      ContainsProxyId(World, Destination(e.tier), e.order[j])
               /\ \A j \in k..Len(e.order) :
                      ContainsProxyId(World, e.tier, e.order[j])

\* an insert whose eviction failed at its second victim of three
C15_Witness ==
    /\ last.op = "setitem" /\ last.raised
    /\ \E e \in LastEvicts : e.raised /\ Len(e.calls) = 2 /\ Len(e.order) = 3

\* C13: when an eviction is asked for more bytes than its snapshot holds
\* (an empty snapshot included), the eviction and the maybe_evict or insert
\* that made it do not raise, the eviction returns the whole snapshot's
\* bytes, less than it was asked for, and the tier is over its limit when
\* the call has returned.
C13_ExhaustionIsNoError ==
    \A e \in LastEvicts :
        SumSizes(e.access) < e.nbytes =>
            /\ ~e.raised /\ ~last.raised
            /\ e.k = Len(e.access)
            /\ e.freed = SumSizes(e.access) /\ e.freed < e.nbytes
            /\ mem_usage[e.tier] + e.extra > Limit(e.tier)

\* an insert (proxify) returned with a tier over its limit after an
\* eviction that found less than it was asked for
C13_Witness ==
    /\ last.op = "proxify" /\ ~last.raised
    /\ \E e \in LastEvicts :
          /\ SumSizes(e.access) < e.nbytes
          /\ mem_usage[e.tier] > Limit(e.tier)

\* no call of the engine has failed
NoFailure == last.op \in {"add", "proxify", "maybe_evict", "cleanup"} => ~last.raised

ResidentAtSnapshot(e) == Range(ids["dev"]) \cup Range(e.calls)

\* the proxies of S that reference the device buffer b
Referencing(S, b) == {p \in S : b \in Range(PxyGetDeviceMemoryObjects(p))}

\* C21: the device snapshot has one entry for each device buffer that a
\* device-resident handle references and no other entry; the entry has the
\* buffer's size, lists every device-resident handle that references the
\* buffer, once, and its time is the greatest last access of these handles;
\* no entry is walked while an entry with a smaller time is not.
C21_DeviceSnapshot ==
    \A e \in LastEvicts :
        (e.tier = "dev" /\ ~e.raised) =>
            LET resident == ResidentAtSnapshot(e)
                bufs == {b \in Buf : Referencing(resident, b) # {}}
            IN /\ Len(e.access) = Cardinality(bufs)
               /\ \A b \in bufs : \E i \in 1..Len(e.access) :
                      /\ e.access[i].size = SizeOfBuf(b)
                      /\ Range(e.access[i].proxies) = Referencing(resident, b)
                      /\ Len(e.access[i].proxies) = Cardinality(Referencing(resident, b))
                      /\ e.access[i].time = Max({last_access[p] : p \in Referencing(resident, b)})
               /\ \A i \in 1..e.k : \A j \in (e.k + 1)..Len(e.access) :
                      e.access[i].time <= e.access[j].time

\* a device eviction left alone a buffer with an old and a recent alias
\* and walked a buffer that is younger than the old alias
C21_Witness ==
    \E e \in LastEvicts :
        /\ e.tier = "dev" /\ ~e.raised
        /\ \E j \in (e.k + 1)..Len(e.access) : \E p, q \in Range(e.access[j].proxies) :
              /\ last_access[p] < last_access[q]
              /\ \E i \in 1..e.k : last_access[p] < e.access[i].time

\* the registry the claim names for a serializer tag
RegistryOfTag(tag) ==
    CASE tag = "disk" -> "disk"
      [] tag \in {"dask", "pickle"} -> "host"
      [] OTHER -> "dev"

\* C23: between calls every tracked handle is in the registry of its
\* serializer tag ("disk": disk, "dask" or "pickle": host, any other:
\* device) and validate() succeeds.
C23_TagMatchesRegistry ==
    /\ \A tier \in Tiers : \A p \in Range(ids[tier]) : RegistryOfTag(serializer[p]) = tier
    /\ Validate(World)

\* after a call that evicted, handles are tracked in each of the three
\* registries, one of them with the tag "pickle"
C23_Witness ==
    /\ last.evicts # <<>> /\ ~last.raised
    /\ \A tier \in Tiers : ids[tier] # <<>>
    /\ \E p \in Range(ids["host"]) : serializer[p] = "pickle"

\* a call of the evictor takes at least one handle from a host registry
\* that tracks one to the disk, and does not raise
EvictorDemotes ==
    (last'.op = "fast_evict" /\ ids["host"] # <<>>) =>
        /\ ~last'.raised
        /\ Len(ids'["host"]) < Len(ids["host"])
        /\ \E p \in Range(ids["host"]) : p \in Range(ids'["disk"])

\* fast is False exactly when the host registry tracks nothing
FastAnswer == last'.op = "fast" => (last'.result <=> ids["host"] # <<>>)

\* C25: while the host registry holds a handle every call of the evictor
\* that fast returned demotes at least one host handle to the disk (also
\* with 1% of the host limit being 0 bytes), and the worker's repeated calls
\* end: eventually the host registry is empty and fast has returned False.
C25_FastTerminates ==
    /\ [][EvictorDemotes /\ FastAnswer]_vars
    /\ <>[](last.op = "fast" /\ ~last.result /\ ids["host"] = <<>>)

\* the evictor was asked for 0 bytes, demoted a handle and left another
\* on the host
C25_Witness ==
    /\ last.op = "fast_evict" /\ ~last.raised
    /\ last.evicts[1].nbytes = 0 /\ last.evicts[1].calls # <<>>
    /\ ids["host"] # <<>>

\* thread t is in the serializer callback of an evict that the
\* maybe_evict of a __setitem__ called: the proxy is being serialized or
\* written to its file
DemotionOfInsert(t) == pc[t] = "ser_io" /\ frame[t].call = "setitem"

\* while a thread is in a demotion that an insert triggered, a thread that
\* waits for the manager's lock can take it
ManagerLockAvailable ==
    \A t \in Threads, u \in Threads :
        (DemotionOfInsert(t) /\ u # t /\ pc[u] \in ManagerLockWaits) => LockFree(u)

\* while a thread is in a demotion that an insert triggered, a thread that
\* waits for the lock of the store can take it
StoreLockAvailable ==
    \A t \in Threads, u \in Threads :
        (DemotionOfInsert(t) /\ u # t /\ pc[u] \in StoreLockWaits) => FileLockFree(u)

\* C22: a thread that runs a demotion triggered by an insert holds no lock
\* another thread needs: while the demotion is in progress, every other
\* thread that waits for the manager's lock (a bookkeeping operation of the
\* manager) or for the lock of the store (a store operation) can take it
\* and go on.
C22_DemotionBlocksNobody == ManagerLockAvailable /\ StoreLockAvailable

\* C24: every handle that evict passes to the demotion callback is, at
\* the moment the callback is invoked, still registered in the tier the
\* snapshot was taken from (a handle removed or moved by another thread
\* since the snapshot is not passed to the callback).
C24_VictimStillInTier == last.op = "serializer" => last.known

====
